---- MODULE Spec2Model ----
(***************************************************************************)
(* Verification model of the Tiro ingestion and speech-preparation core:   *)
(*   tiro/tts.py              chunk_text                                   *)
(*   tiro/ingestion/web.py    image collection / reinjection, layout       *)
(*                            tables, fetch_and_extract                    *)
(*   tiro/ingestion/email.py  tracking pixels, tracking parameters,        *)
(*                            body selection, parse_eml                    *)
(* Strings are sequences of one-character strings, so that length,         *)
(* slicing, stripping and substring search are computed, not assumed.      *)
(***************************************************************************)
EXTENDS Integers, Sequences, FiniteSets, TLC

VARIABLES
    pc,           \* where the modelled call stands
    text,         \* chunk_text: the input text
    max_chars,    \* chunk_text: the character budget
    chunks,       \* chunk_text: the returned list
    html,         \* fetch_and_extract: the fetched page, parsed
    images,       \* fetch_and_extract: content_images
    content_html, \* fetch_and_extract: doc.summary(), parsed
    reinjected,   \* fetch_and_extract: what _reinject_images did
    san_input,    \* sanitizer: the parsed HTML the passes started from
    san_before,   \* sanitizer: the tree before the latest pass
    san_tree,     \* sanitizer: the tree after the latest pass
    san_first,    \* sanitizer: the result of the first run of the passes
    san_round,    \* sanitizer: 1 in the first run of the passes, 2 in the second
    msg,          \* parse_eml: the parsed message
    html_body,    \* parse_eml: what _extract_html_body returned
    md,           \* what the Markdown converter md() returned
    content_md,   \* the Markdown after lines web.py:250 / email.py:208
    record,       \* parse_eml: the returned dict
    error,        \* parse_eml: the message of the ValueError raised
    calls,        \* the extractions under way: one record per call
    mail,         \* the mailbox, the library and the ingestion runs over them
    tts           \* generate_article_audio: its locals, the calls it made, the file

vars == <<pc, text, max_chars, chunks, html, images, content_html, reinjected,
          san_input, san_before, san_tree, san_first, san_round,
          msg, html_body, md, content_md, record, error, calls, mail, tts>>

chunkVars == <<text, max_chars, chunks>>

imageVars == <<html, images, content_html, reinjected>>

sanitizeVars == <<san_input, san_before, san_tree, san_first, san_round>>

emailVars == <<msg, html_body, md, content_md, record, error>>

callVars == <<calls, mail>>

ttsVars == <<tts>>

\* The value of a variable that holds nothing yet.
Nothing == <<>>

CallsIdle == calls = Nothing /\ mail = Nothing

TtsIdle == tts = Nothing

SanitizeIdle ==
    /\ san_input = Nothing /\ san_before = Nothing /\ san_tree = Nothing
    /\ san_first = Nothing /\ san_round = 0

EmailIdle ==
    /\ msg = Nothing /\ html_body = Nothing /\ md = Nothing
    /\ content_md = Nothing /\ record = Nothing /\ error = Nothing

(***************************************************************************)
(* Bounds of the model                                                     *)
(***************************************************************************)
\* Most blocks in the content container of a fetched page.
MaxPageBlocks == 3
\* Most blocks in the content readability returns.
MaxContentBlocks == 3
\* Most elements in the body of a document given to the sanitizer passes.
MaxSanNodes == 3
\* Most name=value fields in the query of an href.
MaxParams == 4
\* Most MIME parts below the root of a multipart message.
MaxParts == 2
\* Longest short Markdown the converter returns.
MaxMdLen == 5
\* Longest input text given to chunk_text.
MaxTextLen == 7
\* Largest max_chars given to chunk_text.
MaxBudget == 5

(***************************************************************************)
(* String helpers (Python str semantics on the modelled alphabet)          *)
(***************************************************************************)
Min(S) == CHOOSE x \in S : \A y \in S : x <= y

Max(S) == CHOOSE x \in S : \A y \in S : x >= y

\* Characters str.strip() removes. The alphabets hold space, newline and tab.
IsWs(c) == c \in {" ", "\n", "\t"}

\* s[i:] for a 1-based first kept index i.
From(s, i) == SubSeq(s, i, Len(s))

\* str.strip()
Strip(s) ==
    LET keep == {i \in 1..Len(s) : ~IsWs(s[i])}
    IN IF keep = {} THEN <<>> ELSE SubSeq(s, Min(keep), Max(keep))

\* All sequences over S of length 0..n.
SeqsUpTo(S, n) == UNION {[1..k -> S] : k \in 0..n}

RECURSIVE Flatten(_)
\* "".join(list)
Flatten(ss) == IF ss = <<>> THEN <<>> ELSE Head(ss) \o Flatten(Tail(ss))

\* pat in s (Python substring test).
Contains(pat, s) ==
    \E i \in 0..(Len(s) - Len(pat)) : SubSeq(s, i + 1, i + Len(pat)) = pat

\* s.endswith(suf)
EndsWith(s, suf) ==
    Len(suf) <= Len(s) /\ SubSeq(s, Len(s) - Len(suf) + 1, Len(s)) = suf

\* s[:n], the wrong end of the text.
FirstN(s, n) == IF Len(s) <= n THEN s ELSE SubSeq(s, 1, n)

\* s[-n:]
LastN(s, n) == IF Len(s) <= n THEN s ELSE SubSeq(s, Len(s) - n + 1, Len(s))

\* The characters of s that are not whitespace, in order.
NonWs(s) == SelectSeq(s, LAMBDA c : ~IsWs(c))

(***************************************************************************)
(* Document trees (lxml).  A tree is the sequence of its elements in       *)
(* document order, each with its depth; an element carries its text (the   *)
(* text before its first child) and its tail (the text after its end tag), *)
(* as lxml stores them.  t[1] is the root.  id is the element's identity,  *)
(* which survives insertions and removals around it.                       *)
(***************************************************************************)
\* The value of an attribute that is not set.
Absent == <<"(absent)">>

AttrNames == {"src", "alt", "class", "width", "height", "style", "usemap",
              "ismap", "href"}

NoAttrs == [k \in AttrNames |-> Absent]

\* el.get(k, d)
Get(n, k, d) == IF n.at[k] = Absent THEN d ELSE n.at[k]

El(tag, depth, txt, tail, at) ==
    [id |-> 0, tag |-> tag, depth |-> depth, text |-> txt, tail |-> tail,
     at |-> at]

\* Number the elements of a freshly parsed tree.
WithIds(t) == [i \in 1..Len(t) |-> [t[i] EXCEPT !.id = i]]

\* A subtree template moved d levels down.
Deeper(t, d) == [i \in 1..Len(t) |-> [t[i] EXCEPT !.depth = @ + d]]

\* Index of the element with identity id (0 when it is not in the tree).
PosOf(t, id) ==
    LET hits == {i \in 1..Len(t) : t[i].id = id}
    IN IF hits = {} THEN 0 ELSE Min(hits)

\* Index of the last element of the subtree of t[i].
End(t, i) ==
    LET later == {j \in (i + 1)..Len(t) : t[j].depth <= t[i].depth}
    IN IF later = {} THEN Len(t) ELSE Min(later) - 1

\* el.getparent(): index of the parent of t[i] (0 for the root).
ParentIx(t, i) ==
    LET up == {j \in 1..(i - 1) : t[j].depth = t[i].depth - 1}
    IN IF up = {} THEN 0 ELSE Max(up)

\* el.getprevious(): index of the previous sibling of t[i] (0 when none).
PrevSibling(t, i) ==
    LET sibs == {j \in (ParentIx(t, i) + 1)..(i - 1) : t[j].depth = t[i].depth}
    IN IF sibs = {} THEN 0 ELSE Max(sibs)

\* Indices of the children of t[i].
ChildIxs(t, i) == {j \in (i + 1)..End(t, i) : t[j].depth = t[i].depth + 1}

RECURSIVE SortedSeq(_)
\* A set of numbers as an increasing sequence.
SortedSeq(S) == IF S = {} THEN <<>> ELSE <<Min(S)>> \o SortedSeq(S \ {Min(S)})

\* el.find(".//tag"): the first descendant of t[i] with that tag (0: None).
FindDesc(t, i, tag) ==
    LET hits == {j \in (i + 1)..End(t, i) : t[j].tag = tag}
    IN IF hits = {} THEN 0 ELSE Min(hits)

RECURSIVE text_content(_, _)
RECURSIVE KidsText(_, _, _)
\* el.text_content(): all text of the subtree in document order.
text_content(t, i) == t[i].text \o KidsText(t, i + 1, End(t, i))

\* The text of the siblings from t[j] to the end e of their parent, tails
\* included.
KidsText(t, j, e) ==
    IF j > e THEN <<>>
    ELSE text_content(t, j) \o t[j].tail \o KidsText(t, End(t, j) + 1, e)

\* parent.insert(index, subtree) / parent.append(subtree): sub placed so that
\* its root becomes element number at of the sequence, at depth d.
InsertAt(t, at, sub, d) ==
    SubSeq(t, 1, at - 1) \o Deeper(sub, d) \o SubSeq(t, at, Len(t))

\* el.set(k, v)
SetAttr(t, i, k, v) == [t EXCEPT ![i].at[k] = v]

\* parent.remove(el): the subtree of t[i] leaves the tree, and with it the
\* tail of t[i], which lxml keeps on the removed element.
remove(t, i) == SubSeq(t, 1, i - 1) \o SubSeq(t, End(t, i) + 1, Len(t))

\* lxml's hand-over of text to what precedes t[i]: the previous sibling's
\* tail, or the parent's text when t[i] is the first child.
GiveToLeft(t, i, txt) ==
    IF txt = <<>> THEN t
    ELSE IF PrevSibling(t, i) = 0
         THEN [t EXCEPT ![ParentIx(t, i)].text = @ \o txt]
         ELSE [t EXCEPT ![PrevSibling(t, i)].tail = @ \o txt]

\* el.drop_tree(): the subtree leaves the tree, its tail stays.
drop_tree(t, i) == remove(GiveToLeft(t, i, t[i].tail), i)

\* drop_tag that does not hand the element's text to what precedes it.
drop_tag_losing_text(t, i) ==
    LET kids == ChildIxs(t, i)
        t2 == IF t[i].tail = <<>> THEN t
              ELSE IF kids # {}
                   THEN [t EXCEPT ![Max(kids)].tail = @ \o t[i].tail]
                   ELSE GiveToLeft(t, i, t[i].tail)
        e == End(t, i)
    IN [j \in 1..(Len(t) - 1) |->
            IF j < i THEN t2[j]
            ELSE IF j + 1 <= e THEN [t2[j + 1] EXCEPT !.depth = @ - 1]
            ELSE t2[j + 1]]

\* el.drop_tag(): the element leaves the tree; its text, its children and
\* its tail stay in its place.
drop_tag(t, i) ==
    LET t1 == GiveToLeft(t, i, t[i].text)
        kids == ChildIxs(t, i)
        t2 == IF t[i].tail = <<>> THEN t1
              ELSE IF kids # {}
                   THEN [t1 EXCEPT ![Max(kids)].tail = @ \o t[i].tail]
                   ELSE GiveToLeft(t1, i, t[i].tail)
        e == End(t, i)
    IN [j \in 1..(Len(t) - 1) |->
            IF j < i THEN t2[j]
            ELSE IF j + 1 <= e THEN [t2[j + 1] EXCEPT !.depth = @ - 1]
            ELSE t2[j + 1]]

\* Identities of the elements with the given tag, in document order:
\* list(tree.iter(tag)).
IterIds(t, tag) ==
    LET ix == SortedSeq({i \in 1..Len(t) : t[i].tag = tag})
    IN [k \in 1..Len(ix) |-> t[ix[k]].id]

\* The element a live tree.iter(tag) yields after t[i]: the next one in
\* document order (0 when there is none).
NextWithTag(t, i, tag) ==
    LET hits == {j \in (i + 1)..Len(t) : t[j].tag = tag}
    IN IF hits = {} THEN 0 ELSE Min(hits)

\* Number of img elements of t whose src is s.
SrcCount(t, s) ==
    Cardinality({i \in 1..Len(t) : t[i].tag = "img" /\ Get(t[i], "src", <<>>) = s})

(***************************************************************************)
(* tts.py: chunk_text                                                      *)
(***************************************************************************)
RECURSIVE SplitParagraphs(_)
\* text.split("\n\n"): leftmost non-overlapping occurrences.
SplitParagraphs(s) ==
    LET hits == {i \in 1..(Len(s) - 1) : s[i] = "\n" /\ s[i + 1] = "\n"}
    IN IF hits = {} THEN <<s>>
       ELSE <<SubSeq(s, 1, Min(hits) - 1)>>
                \o SplitParagraphs(From(s, Min(hits) + 2))

RECURSIVE SplitSentencesAtSpaces(_)
\* Line 43 with the pattern r'(?<= )': cut after every space.
SplitSentencesAtSpaces(s) ==
    LET hits == {i \in 1..Len(s) : s[i] = " "}
    IN IF hits = {} THEN <<s>>
       ELSE <<SubSeq(s, 1, Min(hits))>>
                \o SplitSentencesAtSpaces(From(s, Min(hits) + 1))

RECURSIVE SplitSentences(_)
\* re.split(r'(?<=\. )', para): cut after every period followed by a space.
SplitSentences(s) ==
    LET hits == {i \in 2..Len(s) : s[i - 1] = "." /\ s[i] = " "}
    IN IF hits = {} THEN <<s>>
       ELSE <<SubSeq(s, 1, Min(hits))>> \o SplitSentences(From(s, Min(hits) + 1))

RECURSIVE SentenceLoop(_, _, _, _)
\* Lines 44-49: the loop over the sentences of an over-long paragraph.
\* Returns the chunk list and the sentence_chunk left in the buffer.
SentenceLoop(sentences, out, sentence_chunk, n) ==
    IF sentences = <<>> THEN [chunks |-> out, sentence_chunk |-> sentence_chunk]
    ELSE LET sentence == Head(sentences)
             flush == sentence_chunk # <<>>
                        /\ Len(sentence_chunk) + Len(sentence) > n
             out1 == IF flush THEN Append(out, Strip(sentence_chunk)) ELSE out
             sc1 == IF flush THEN <<>> ELSE sentence_chunk
         IN SentenceLoop(Tail(sentences), out1, sc1 \o sentence, n)

RECURSIVE ParagraphLoop(_, _, _, _)
\* Lines 28-56: the loop over the paragraphs.
ParagraphLoop(paragraphs, out, current, n) ==
    IF paragraphs = <<>> THEN [chunks |-> out, current |-> current]
    ELSE LET para == Strip(Head(paragraphs))
             rest == Tail(paragraphs)
         IN IF para = <<>> THEN ParagraphLoop(rest, out, current, n)
            ELSE LET flush == current # <<>>
                                /\ Len(current) + 2 + Len(para) > n
                     out1 == IF flush THEN Append(out, Strip(current)) ELSE out
                     cur1 == IF flush THEN <<>> ELSE current
                 IN IF Len(para) > n
                    THEN LET out2 == IF cur1 # <<>>
                                     THEN Append(out1, Strip(cur1)) ELSE out1
                             r == SentenceLoop(SplitSentences(para), out2, <<>>, n)
                             cur2 == IF Strip(r.sentence_chunk) # <<>>
                                     THEN r.sentence_chunk ELSE <<>>
                         IN ParagraphLoop(rest, r.chunks, cur2, n)
                    ELSE LET cur2 == IF cur1 # <<>>
                                     THEN cur1 \o <<"\n", "\n">> \o para
                                     ELSE para
                         IN ParagraphLoop(rest, out1, cur2, n)

\* chunk_text without the final flush of lines 58-59.
chunk_text_no_final_flush(t, n) ==
    ParagraphLoop(SplitParagraphs(t), <<>>, <<>>, n).chunks

\* chunk_text(text, max_chars)
chunk_text(t, n) ==
    LET r == ParagraphLoop(SplitParagraphs(t), <<>>, <<>>, n)
    IN IF Strip(r.current) # <<>> THEN Append(r.chunks, Strip(r.current))
       ELSE r.chunks

RECURSIVE Reconstructs(_, _)
\* t is the chunks cs in order, with only whitespace before, between and
\* after them.
Reconstructs(t, cs) ==
    LET solid == {i \in 1..Len(t) : ~IsWs(t[i])}
    IN IF cs = <<>> THEN solid = {}
       ELSE /\ solid # {}
            /\ Len(t) - Min(solid) + 1 >= Len(Head(cs))
            /\ SubSeq(t, Min(solid), Min(solid) + Len(Head(cs)) - 1) = Head(cs)
            /\ Reconstructs(From(t, Min(solid) + Len(Head(cs))), Tail(cs))

RECURSIVE NormalizeBreaks(_)
\* t with every maximal whitespace run that contains a paragraph break
\* (two newlines) rewritten to exactly two newlines.
NormalizeBreaks(t) ==
    IF t = <<>> THEN <<>>
    ELSE IF ~IsWs(t[1]) THEN <<t[1]>> \o NormalizeBreaks(Tail(t))
    ELSE LET solid == {i \in 1..Len(t) : ~IsWs(t[i])}
             e == IF solid = {} THEN Len(t) ELSE Min(solid) - 1
             hasBreak == \E i \in 1..(e - 1) : t[i] = "\n" /\ t[i + 1] = "\n"
         IN (IF hasBreak THEN <<"\n", "\n">> ELSE SubSeq(t, 1, e))
                \o NormalizeBreaks(From(t, e + 1))

\* The characters of the speech text the model draws from.
TextChars == {"a", ".", " ", "\n"}

ChunkIdle == text = Nothing /\ max_chars = 0 /\ chunks = Nothing

ImagesIdle ==
    /\ html = Nothing /\ images = Nothing
    /\ content_html = Nothing /\ reinjected = Nothing

ChunkInit ==
    /\ pc = "call"
    /\ text \in SeqsUpTo(TextChars, MaxTextLen)
    /\ max_chars \in 1..MaxBudget
    /\ chunks = Nothing
    /\ ImagesIdle /\ SanitizeIdle /\ EmailIdle /\ CallsIdle /\ TtsIdle

\* One call chunk_text(text, max_chars).
ChunkText ==
    /\ pc = "call"
    /\ pc' = "returned"
    /\ chunks' = chunk_text(text, max_chars)
    /\ UNCHANGED <<text, max_chars, imageVars, sanitizeVars, emailVars,
                 callVars, ttsVars>>

ChunkNext == ChunkText

SpecChunk == ChunkInit /\ [][ChunkNext]_vars

(***************************************************************************)
(* Claims about chunk_text                                                 *)
(***************************************************************************)
\* C1: every chunk returned by chunk_text(text, max_chars) has length
\* <= max_chars, for every text and every max_chars >= 1.
C1_ChunksWithinBudget ==
    pc = "returned" => \A i \in 1..Len(chunks) : Len(chunks[i]) <= max_chars

\* C2 as stated: the chunks, in order, separated only by the whitespace that
\* stood between them, reproduce the text up to whitespace at chunk
\* boundaries.
C2_ReproducesUpToBoundaryWhitespace ==
    pc = "returned" => Reconstructs(text, chunks)

\* C2 amended: the chunks reproduce the text once every whitespace run
\* holding a paragraph break is rewritten to two newlines (also inside a
\* chunk); no non-whitespace character is dropped, duplicated or reordered.
C2_ReproducesUpToBreakWhitespace ==
    pc = "returned" =>
        /\ Reconstructs(NormalizeBreaks(text), chunks)
        /\ NonWs(Flatten(chunks)) = NonWs(text)

\* C2 witness: a chunk that joins two paragraphs, where the whitespace
\* around their paragraph break was rewritten.
C2_Witness ==
    /\ pc = "returned"
    /\ \E i \in 1..Len(chunks) : 
          \E j \in 1..(Len(chunks[i]) - 1) :
              chunks[i][j] = "\n" /\ chunks[i][j + 1] = "\n"
    /\ ~Reconstructs(text, chunks)

(***************************************************************************)
(* web.py: _collect_content_images                                         *)
(***************************************************************************)
\* The class-name heuristics of lines 34-39, in order.
ContainerClasses ==
    << <<"b", "o", "d", "y", " ", "m", "a", "r", "k", "u", "p">>,
       <<"p", "o", "s", "t", "-", "c", "o", "n", "t", "e", "n", "t">>,
       <<"a", "r", "t", "i", "c", "l", "e", "-", "c", "o", "n", "t", "e", "n", "t">>,
       <<"e", "n", "t", "r", "y", "-", "c", "o", "n", "t", "e", "n", "t">> >>

\* "image-container" (line 57)
ImageContainerClass ==
    <<"i", "m", "a", "g", "e", "-", "c", "o", "n", "t", "a", "i", "n", "e", "r">>

\* Length of the anchor kept from the preceding text (line 75).
AnchorLen == 80

\* tree.xpath('//*[contains(@class, m)]'): the first hit (0 when none).
FirstWithClass(t, m) ==
    LET hits == {i \in 1..Len(t) : Contains(m, Get(t[i], "class", <<>>))}
    IN IF hits = {} THEN 0 ELSE Min(hits)

\* tree.find(".//body"), else the tree itself (lines 45-46, 111-112).
BodyOrRoot(t) == IF FindDesc(t, 1, "body") # 0 THEN FindDesc(t, 1, "body") ELSE 1

\* Lines 33-46: the content container of the page.
CollectContainer(t) ==
    LET sel == {k \in 1..Len(ContainerClasses) :
                    FirstWithClass(t, ContainerClasses[k]) # 0}
    IN IF sel # {} THEN FirstWithClass(t, ContainerClasses[Min(sel)])
       ELSE BodyOrRoot(t)

\* Lines 67-79: the record of the image container t[el], None (<<>>) when it
\* holds no img with a src.
ImageRecord(t, el, prev_text) ==
    LET img == FindDesc(t, el, "img")
        src == IF img = 0 THEN <<>> ELSE Get(t[img], "src", <<>>)
        cap == FindDesc(t, el, "figcaption")
    IN IF src = <<>> THEN <<>>
       ELSE << [src |-> src,
                alt |-> Get(t[img], "alt", <<>>),
                caption |-> IF cap = 0 THEN <<>>
                            ELSE Strip(text_content(t, cap)),
                anchor |-> IF Strip(prev_text) # <<>>
                           THEN LastN(Strip(prev_text), AnchorLen)
                           ELSE <<>>] >>

RECURSIVE CollectLoop(_, _, _, _)
\* Lines 51-83: the walk over the direct children of the container.
CollectLoop(t, kids, out, prev_text) ==
    IF kids = <<>> THEN out
    ELSE LET c == Head(kids)
             direct == \/ t[c].tag = "figure"
                       \/ /\ t[c].tag = "div"
                          /\ Contains(ImageContainerClass,
                                      Get(t[c], "class", <<>>))
             fig == FindDesc(t, c, "figure")
         IN IF direct \/ fig # 0
            THEN CollectLoop(t, Tail(kids),
                     out \o ImageRecord(t, IF direct THEN c ELSE fig, prev_text),
                     prev_text)
            ELSE CollectLoop(t, Tail(kids), out,
                     IF Strip(text_content(t, c)) # <<>>
                     THEN text_content(t, c) ELSE prev_text)

\* _collect_content_images(html)
collect_content_images(t) ==
    CollectLoop(t, SortedSeq(ChildIxs(t, CollectContainer(t))), <<>>, <<>>)

(***************************************************************************)
(* web.py: _reinject_images                                                *)
(***************************************************************************)
\* Line 116
leaf_tags == {"p", "h1", "h2", "h3", "h4", "h5", "h6", "blockquote", "li"}

\* Line 104
existing_srcs(t) ==
    {Get(t[i], "src", <<>>) : i \in {j \in 1..Len(t) : t[j].tag = "img"}}

\* Line 105 with every collected image taken as missing.
missing_unfiltered(t, imgs) == imgs

\* Line 105
missing(t, imgs) == SelectSeq(imgs, LAMBDA im : im.src \notin existing_srcs(t))

\* Lines 117-122: the blocks (identity and trimmed text), in document order.
Blocks(t) ==
    LET c == BodyOrRoot(t)
        ix == SortedSeq({i \in c..End(t, c) :
                            /\ t[i].tag \in leaf_tags
                            /\ Strip(text_content(t, i)) # <<>>})
    IN [k \in 1..Len(ix) |->
            [id |-> t[ix[k]].id, text |-> Strip(text_content(t, ix[k]))]]

\* Identity of the wrapper built for the k-th missing image.
WrapperId(k) == 1000 + 10 * k

\* Lines 125-135: <p><img src alt>[<br><em>caption</em>]</p> at depth 0.
Wrapper(im, k) ==
    << [El("p", 0, <<>>, <<>>, NoAttrs) EXCEPT !.id = WrapperId(k)],
       [El("img", 1, <<>>, <<>>,
           [NoAttrs EXCEPT !["src"] = im.src,
                           !["alt"] = IF im.alt # <<>> THEN im.alt ELSE Absent])
            EXCEPT !.id = WrapperId(k) + 1] >>
    \o IF im.caption = <<>> THEN <<>>
       ELSE << [El("br", 1, <<>>, <<>>, NoAttrs) EXCEPT !.id = WrapperId(k) + 2],
               [El("em", 1, im.caption, <<>>, NoAttrs)
                    EXCEPT !.id = WrapperId(k) + 3] >>

\* Lines 140-145: the first block, in document order, that the anchor
\* matches and that has a parent (0 when the anchor is empty or there is
\* none).
MatchingBlock(t, blocks, anchor) ==
    LET hits == {k \in 1..Len(blocks) :
                    /\ \/ EndsWith(blocks[k].text, anchor)
                       \/ Contains(anchor, blocks[k].text)
                    /\ ParentIx(t, PosOf(t, blocks[k].id)) # 0}
    IN IF anchor = <<>> \/ hits = {} THEN 0 ELSE blocks[Min(hits)].id

\* Lines 144-147 with the wrapper put before the block instead of after it.
InsertBeforeBlock(t, el, sub) == InsertAt(t, el, sub, t[el].depth)

\* Lines 144-147: parent.insert(list(parent).index(el) + 1, wrapper)
InsertAfterBlock(t, el, sub) == InsertAt(t, End(t, el) + 1, sub, t[el].depth)

\* Line 153 with the wrapper put in front of the container's children.
PrependToContainer(t, sub) ==
    InsertAt(t, BodyOrRoot(t) + 1, sub, t[BodyOrRoot(t)].depth + 1)

\* Line 153: container.append(wrapper)
AppendToContainer(t, sub) ==
    InsertAt(t, End(t, BodyOrRoot(t)) + 1, sub, t[BodyOrRoot(t)].depth + 1)

RECURSIVE ReinjectLoop(_, _, _, _, _)
\* Lines 124-153: the loop over the missing images.  steps records, for each
\* of them, the block it was placed after (0: appended) and the tree right
\* after its insertion.
ReinjectLoop(t, blocks, todo, k, steps) ==
    IF todo = <<>> THEN [tree |-> t, steps |-> steps]
    ELSE LET im == Head(todo)
             b == MatchingBlock(t, blocks, im.anchor)
             t1 == IF b # 0 THEN InsertAfterBlock(t, PosOf(t, b), Wrapper(im, k))
                   ELSE AppendToContainer(t, Wrapper(im, k))
         IN ReinjectLoop(t1, blocks, Tail(todo), k + 1,
                Append(steps, [image |-> im, wrapper |-> WrapperId(k),
                               block |-> b, tree |-> t1]))

\* _reinject_images(content_html, images)
reinject_images(t, imgs) ==
    IF imgs = <<>> \/ missing(t, imgs) = <<>> THEN [tree |-> t, steps |-> <<>>]
    ELSE ReinjectLoop(t, Blocks(t), missing(t, imgs), 1, <<>>)

(***************************************************************************)
(* email.py: _strip_tracking_pixels                                        *)
(***************************************************************************)
\* Lines 50-59
tracking_patterns ==
    { <<"o", "p", "e", "n", ".", "s", "u", "b", "s", "t", "a", "c", "k", ".", "c", "o", "m">>,
      <<"l", "i", "s", "t", "-", "m", "a", "n", "a", "g", "e", ".", "c", "o", "m", "/", "t", "r", "a", "c", "k">>,
      <<"m", "a", "i", "l", "c", "h", "i", "m", "p", ".", "c", "o", "m", "/", "t", "r", "a", "c", "k">>,
      <<"e", "m", "a", "i", "l", ".", "m", "g", ".">>,
      <<"/", "b", "e", "a", "c", "o", "n">>,
      <<"/", "t", "r", "a", "c", "k", "/", "o", "p", "e", "n">>,
      <<"/", "p", "i", "x", "e", "l">>,
      <<"t", "r", "k", ".", "k", "l", "c", "l", "i", "c", "k">> }

\* str.lower() on the letters the model uses in upper case.
LowerChar(c) ==
    CASE c = "P" -> "p" [] c = "R" -> "r" [] c = "S" -> "s" [] c = "U" -> "u"
      [] OTHER -> c

\* str.lower()
Lower(str) == [i \in 1..Len(str) |-> LowerChar(str[i])]

\* style.replace(" ", "")
RemoveSpaces(str) == SelectSeq(str, LAMBDA c : c # " ")

DisplayNone == <<"d", "i", "s", "p", "l", "a", "y", ":", "n", "o", "n", "e">>

VisibilityHidden == <<"v", "i", "s", "i", "b", "i", "l", "i", "t", "y", ":", "h", "i", "d", "d", "e", "n">>

\* Lines 36-61 with the dimension test of line 44 requiring only one of
\* width and height.
is_pixel_either_dimension(n) ==
    \/ Get(n, "width", <<>>) \in {<<"1">>, <<"0">>}
    \/ Get(n, "height", <<>>) \in {<<"1">>, <<"0">>}
    \/ Contains(DisplayNone, RemoveSpaces(Get(n, "style", <<>>)))
    \/ Contains(VisibilityHidden, RemoveSpaces(Get(n, "style", <<>>)))
    \/ \E pat \in tracking_patterns : Contains(pat, Lower(Get(n, "src", <<>>)))

\* Lines 36-61: is_pixel for one img element.
is_pixel(n) ==
    \/ /\ Get(n, "width", <<>>) \in {<<"1">>, <<"0">>}
       /\ Get(n, "height", <<>>) \in {<<"1">>, <<"0">>}
    \/ Contains(DisplayNone, RemoveSpaces(Get(n, "style", <<>>)))
    \/ Contains(VisibilityHidden, RemoveSpaces(Get(n, "style", <<>>)))
    \/ \E pat \in tracking_patterns : Contains(pat, Lower(Get(n, "src", <<>>)))

RECURSIVE PixelLoop(_, _)
\* Lines 35-66: the loop over list(tree.iter("img")).  An img that is the
\* root of the tree has a parent too, the <body> the parser put around it;
\* removing it from there leaves the tree that line 68 serializes as it is.
PixelLoop(t, ids) ==
    IF ids = <<>> THEN t
    ELSE LET i == PosOf(t, Head(ids))
         IN IF i # 0 /\ is_pixel(t[i]) /\ ParentIx(t, i) # 0
            THEN PixelLoop(remove(t, i), Tail(ids))
            ELSE PixelLoop(t, Tail(ids))

\* _strip_tracking_pixels(html)
strip_tracking_pixels(t) == PixelLoop(t, IterIds(t, "img"))

(***************************************************************************)
(* email.py: _strip_utm_params                                             *)
(***************************************************************************)
\* Lines 20-25
TRACKING_PARAMS ==
    { <<"u", "t", "m", "_", "s", "o", "u", "r", "c", "e">>,
      <<"u", "t", "m", "_", "m", "e", "d", "i", "u", "m">>,
      <<"u", "t", "m", "_", "c", "a", "m", "p", "a", "i", "g", "n">>,
      <<"u", "t", "m", "_", "c", "o", "n", "t", "e", "n", "t">>,
      <<"u", "t", "m", "_", "t", "e", "r", "m">>,
      <<"m", "c", "_", "c", "i", "d">>,
      <<"m", "c", "_", "e", "i", "d">>,
      <<"r", "e", "f">>,
      <<"r", "e", "f", "_", "s", "r", "c">>,
      <<"s">>,
      <<"s", "r", "e", "f">> }

\* Position of the first c in str (0 when there is none).
IndexOf(str, c) ==
    LET hits == {i \in 1..Len(str) : str[i] = c}
    IN IF hits = {} THEN 0 ELSE Min(hits)

RECURSIVE SplitOn(_, _)
\* str.split(c)
SplitOn(str, c) ==
    IF IndexOf(str, c) = 0 THEN <<str>>
    ELSE <<SubSeq(str, 1, IndexOf(str, c) - 1)>>
            \o SplitOn(From(str, IndexOf(str, c) + 1), c)

RECURSIVE Join(_, _)
\* sep.join(parts)
Join(parts, sep) ==
    IF parts = <<>> THEN <<>>
    ELSE IF Len(parts) = 1 THEN parts[1]
    ELSE parts[1] \o sep \o Join(Tail(parts), sep)

\* urlparse(href), line 82: the fragment is cut at the first "#", then the
\* query at the first "?".  base is scheme, host, path and parameters,
\* which urlunparse puts back as they were.
urlparse(href) ==
    LET h == IndexOf(href, "#")
        front == IF h = 0 THEN href ELSE SubSeq(href, 1, h - 1)
        q == IndexOf(front, "?")
    IN [base |-> IF q = 0 THEN front ELSE SubSeq(front, 1, q - 1),
        query |-> IF q = 0 THEN <<>> ELSE From(front, q + 1),
        fragment |-> IF h = 0 THEN <<>> ELSE From(href, h + 1)]

\* urlunparse(parts), line 87
urlunparse(u) ==
    u.base \o (IF u.query = <<>> THEN <<>> ELSE <<"?">> \o u.query)
           \o (IF u.fragment = <<>> THEN <<>> ELSE <<"#">> \o u.fragment)

\* One name=value field of a query as parse_qsl reads it: cut at the first
\* "=", a field without "=" has the value "".
Field(f) ==
    IF IndexOf(f, "=") = 0 THEN [key |-> f, value |-> <<>>]
    ELSE [key |-> SubSeq(f, 1, IndexOf(f, "=") - 1),
          value |-> From(f, IndexOf(f, "=") + 1)]

\* A decoded string is a sequence of characters; the character U+FFFD, which
\* decoding puts in place of a byte that is not UTF-8, is written ReplChar.
ReplChar == "U+FFFD"

\* The percent escapes that occur in the model's hrefs, with what
\* bytes.decode("utf-8", "replace") makes of them.  %FF is never UTF-8;
\* %EF%BF%BD is the UTF-8 encoding of U+FFFD.
Escapes ==
    << [enc |-> <<"%", "E", "F", "%", "B", "F", "%", "B", "D">>, dec |-> ReplChar],
       [enc |-> <<"%", "F", "F">>, dec |-> ReplChar],
       [enc |-> <<"%", "2", "0">>, dec |-> " "],
       [enc |-> <<"%", "2", "B">>, dec |-> "+"],
       [enc |-> <<"%", "2", "5">>, dec |-> "%"] >>

\* s starts with pre.
StartsWith(str, pre) ==
    Len(pre) <= Len(str) /\ SubSeq(str, 1, Len(pre)) = pre

RECURSIVE unquote(_)
\* urllib.parse.unquote: escapes become characters, a "%" that starts no
\* escape stays.
unquote(str) ==
    IF str = <<>> THEN <<>>
    ELSE LET hits == {i \in 1..Len(Escapes) : StartsWith(str, Escapes[i].enc)}
         IN IF hits = {} THEN <<Head(str)>> \o unquote(Tail(str))
            ELSE <<Escapes[Min(hits)].dec>>
                    \o unquote(From(str, Len(Escapes[Min(hits)].enc) + 1))

\* nv[i].replace("+", " ") followed by unquote, as parse_qsl decodes.
unquote_plus(str) ==
    unquote([i \in 1..Len(str) |-> IF str[i] = "+" THEN " " ELSE str[i]])

\* quote_plus of one character: letters, digits and "_" stay, a space
\* becomes "+", every other character the escape of its UTF-8 bytes.
QuoteChar(c) ==
    CASE c = " " -> <<"+">>
      [] c = ReplChar -> <<"%", "E", "F", "%", "B", "F", "%", "B", "D">>
      [] c = "+" -> <<"%", "2", "B">>
      [] c = "%" -> <<"%", "2", "5">>
      [] OTHER -> <<c>>

\* urllib.parse.quote_plus, the quote_via of urlencode
quote_plus(str) == Flatten([i \in 1..Len(str) |-> QuoteChar(str[i])])

\* parse_qsl(query, keep_blank_values): the fields in order, decoded; empty
\* fields are skipped, and fields with a blank value too unless
\* keep_blank_values.
parse_qsl(query, keep_blank_values) ==
    LET fs == SelectSeq(SplitOn(query, "&"), LAMBDA f : f # <<>>)
        raw == SelectSeq([i \in 1..Len(fs) |-> Field(fs[i])],
                         LAMBDA pr : keep_blank_values \/ pr.value # <<>>)
    IN [i \in 1..Len(raw) |->
            [key |-> unquote_plus(raw[i].key),
             value |-> unquote_plus(raw[i].value)]]

RECURSIVE GroupByKey(_, _)
\* The dict parse_qs builds: one entry per key, in order of first
\* occurrence, holding the key's values in order.
GroupByKey(pairs, dict) ==
    IF pairs = <<>> THEN dict
    ELSE LET pr == Head(pairs)
             at == {i \in 1..Len(dict) : dict[i].key = pr.key}
         IN GroupByKey(Tail(pairs),
                IF at = {} THEN Append(dict, [key |-> pr.key, values |-> <<pr.value>>])
                ELSE [dict EXCEPT ![Min(at)].values = Append(@, pr.value)])

\* Line 83 without keep_blank_values=True.
parse_qs_dropping_blanks(query) == GroupByKey(parse_qsl(query, FALSE), <<>>)

\* parse_qs(parsed.query, keep_blank_values=True), line 83
parse_qs(query) == GroupByKey(parse_qsl(query, TRUE), <<>>)

\* urlencode(cleaned, doseq=True), line 86: key=value for every value of
\* every key, in dict order.
urlencode(dict) ==
    Join(Flatten([i \in 1..Len(dict) |->
                    [j \in 1..Len(dict[i].values) |->
                        quote_plus(dict[i].key) \o <<"=">>
                            \o quote_plus(dict[i].values[j])]]),
         <<"&">>)

\* Lines 79-87: the href an <a> carries after the pass.
strip_href(href) ==
    IF href = <<>> \/ IndexOf(href, "?") = 0 THEN href
    ELSE LET parsed == urlparse(href)
             params == parse_qs(parsed.query)
             cleaned == SelectSeq(params,
                            LAMBDA e : Lower(e.key) \notin TRACKING_PARAMS)
         IN IF Len(cleaned) # Len(params)
            THEN urlunparse([parsed EXCEPT !.query = urlencode(cleaned)])
            ELSE href

\* _strip_utm_params(html): every <a> with an href gets strip_href of it.
strip_utm_params(t) ==
    [i \in 1..Len(t) |->
        IF t[i].tag = "a" /\ Get(t[i], "href", <<>>) # <<>>
        THEN [t[i] EXCEPT !.at["href"] = strip_href(t[i].at["href"])]
        ELSE t[i]]

(***************************************************************************)
(* web.py: fetch_and_extract, lines 226-233 (image recovery)               *)
(***************************************************************************)
Src1 == <<"s", "1">>

Src2 == <<"s", "2">>

\* The blocks a fetched page is built from: paragraphs, a figure, an
\* image-container div, and a div that wraps text and a captioned figure.
PageBlocks ==
    { << El("p", 0, <<"a">>, <<>>, NoAttrs) >>,
      << El("p", 0, <<"b", " ">>, <<>>, NoAttrs) >>,
      << El("figure", 0, <<>>, <<>>, NoAttrs),
         El("img", 1, <<>>, <<>>, [NoAttrs EXCEPT !["src"] = Src1]) >>,
      << El("div", 0, <<>>, <<>>,
            [NoAttrs EXCEPT !["class"] = ImageContainerClass \o <<" ", "x">>]),
         El("img", 1, <<>>, <<>>, [NoAttrs EXCEPT !["src"] = Src2]) >>,
      << El("div", 0, <<>>, <<>>, NoAttrs),
         El("p", 1, <<"b">>, <<>>, NoAttrs),
         El("figure", 1, <<>>, <<>>, NoAttrs),
         El("img", 2, <<>>, <<>>,
            [NoAttrs EXCEPT !["src"] = Src2, !["alt"] = <<"x">>]),
         El("figcaption", 2, <<"c", " ">>, <<>>, NoAttrs) >> }

\* The blocks of readability's output: paragraphs, a quoted paragraph, and a
\* paragraph that kept its image.
ContentBlocks ==
    { << El("p", 0, <<"a">>, <<>>, NoAttrs) >>,
      << El("p", 0, <<" ", "b">>, <<>>, NoAttrs) >>,
      << El("blockquote", 0, <<>>, <<>>, NoAttrs),
         El("p", 1, <<"a", "b">>, <<>>, NoAttrs) >>,
      << El("p", 0, <<>>, <<>>, NoAttrs),
         El("img", 1, <<>>, <<>>, [NoAttrs EXCEPT !["src"] = Src1]) >> }

\* <html><body> around the given children of body.
HtmlBody(kids) ==
    << El("html", 0, <<>>, <<>>, NoAttrs), El("body", 1, <<>>, <<>>, NoAttrs) >>
    \o Deeper(kids, 2)

\* The pages: the blocks directly in <body>, or in a div that one of the
\* class-name heuristics finds, after a navigation paragraph.
Pages ==
    { WithIds(HtmlBody(Flatten(bs))) : bs \in SeqsUpTo(PageBlocks, MaxPageBlocks) }
    \cup
    { WithIds(HtmlBody(
          << El("p", 0, <<"a", "b">>, <<>>, NoAttrs),
             El("div", 0, <<>>, <<>>,
                [NoAttrs EXCEPT !["class"] = ContainerClasses[2]]) >>
          \o Deeper(Flatten(bs), 1))) : bs \in SeqsUpTo(PageBlocks, MaxPageBlocks) }

\* What doc.summary() can return: <html><body><div> around the kept blocks.
Summaries ==
    { WithIds(HtmlBody(<< El("div", 0, <<>>, <<>>, NoAttrs) >>
                       \o Deeper(Flatten(bs), 1))) :
        bs \in SeqsUpTo(ContentBlocks, MaxContentBlocks) }

\* Line 220: the page has been fetched.
ImagesInit ==
    /\ pc = "fetched"
    /\ html \in Pages
    /\ images = Nothing /\ content_html = Nothing /\ reinjected = Nothing
    /\ ChunkIdle /\ SanitizeIdle /\ EmailIdle /\ CallsIdle /\ TtsIdle

\* Line 226
Collect ==
    /\ pc = "fetched"
    /\ pc' = "collected"
    /\ images' = collect_content_images(html)
    /\ UNCHANGED <<html, content_html, reinjected, chunkVars, sanitizeVars, emailVars,
                 callVars, ttsVars>>

\* Lines 228-230: readability is a library.  Its result keeps a part of the
\* page: any summary that holds no image more often than the page does.
Summary ==
    /\ pc = "collected"
    /\ pc' = "summarized"
    /\ content_html' \in Summaries
    /\ \A s \in {Src1, Src2} : SrcCount(content_html', s) <= SrcCount(html, s)
    /\ UNCHANGED <<html, images, reinjected, chunkVars, sanitizeVars, emailVars,
                 callVars, ttsVars>>

\* Line 233
Reinject ==
    /\ pc = "summarized"
    /\ pc' = "reinjected"
    /\ reinjected' = reinject_images(content_html, images)
    /\ UNCHANGED <<html, images, content_html, chunkVars, sanitizeVars, emailVars,
                 callVars, ttsVars>>

ImagesNext == Collect \/ Summary \/ Reinject

SpecImages == ImagesInit /\ [][ImagesNext]_vars

(***************************************************************************)
(* Claims about image recovery                                             *)
(***************************************************************************)
\* The anchors of the collected images are pairwise distinct.
AnchorsDistinct(imgs) ==
    \A i, j \in 1..Len(imgs) : i # j => imgs[i].anchor # imgs[j].anchor

\* Number of collected images whose src is s.
ListCount(imgs, s) == Cardinality({k \in 1..Len(imgs) : imgs[k].src = s})

BlocksContaining(t, anchor) ==
    {i \in 1..Len(t) :
        /\ t[i].tag \in {"p", "h1", "h2", "h3", "h4", "h5", "h6",
                         "blockquote", "li"}
        /\ Strip(text_content(t, i)) # <<>>
        /\ Contains(anchor, text_content(t, i))}

\* In tree t, the element w is the sibling right after the element b.
RightAfter(t, w, b) ==
    /\ PosOf(t, w) # 0 /\ PosOf(t, b) # 0
    /\ PosOf(t, w) = End(t, PosOf(t, b)) + 1
    /\ t[PosOf(t, w)].depth = t[PosOf(t, b)].depth

LastChildOfContainer(t, w) ==
    /\ PosOf(t, w) # 0
    /\ ParentIx(t, PosOf(t, w)) = BodyOrRoot(t)
    /\ End(t, PosOf(t, w)) = End(t, BodyOrRoot(t))

LAYOUT_TAGS == {"table", "tbody", "thead", "tfoot", "tr", "td", "th"}

LayoutTagOrders ==
    { <<"table", "tbody", "thead", "tfoot", "tr", "td", "th">>,
      <<"th", "td", "tr", "tfoot", "thead", "tbody", "table">> }

\* The identity of the element at position i (0 when i is 0).
IdAt(t, i) == IF i = 0 THEN 0 ELSE t[i].id

RECURSIVE DropTagLoop(_, _, _)
\* Lines 166-167: for el in tree.iter(tag): el.drop_tag().  The iterator is
\* live and has fixed the element it yields next before the body runs.
DropTagLoop(t, cur, tag) ==
    IF cur = 0 THEN t
    ELSE LET i == PosOf(t, cur)
         IN DropTagLoop(drop_tag(t, i), IdAt(t, NextWithTag(t, i, tag)), tag)

RECURSIVE DropLayoutTags(_, _)
\* Lines 165-167
DropLayoutTags(t, order) ==
    IF order = <<>> THEN t
    ELSE DropLayoutTags(
            DropTagLoop(t, IdAt(t, NextWithTag(t, 0, Head(order))), Head(order)),
            Tail(order))

Trans1x1 == <<"t", "r", "a", "n", "s", "_", "1", "x", "1">>

Spacer == <<"s", "p", "a", "c", "e", "r">>

\* Lines 171-180: the imgs the second loop drops.
is_spacer(n) ==
    \/ n.at["usemap"] # Absent
    \/ n.at["ismap"] # Absent
    \/ Get(n, "width", <<>>) = <<"1">>
    \/ Get(n, "height", <<>>) = <<"1">>
    \/ Contains(Trans1x1, Get(n, "src", <<>>))
    \/ Contains(Spacer, Get(n, "src", <<>>))

RECURSIVE SpacerLoop(_, _)
\* Lines 170-181: the loop over list(tree.iter("img")).  Dropping an img
\* that is the root of the tree leaves the tree that line 187 serializes as
\* it is.
SpacerLoop(t, ids) ==
    IF ids = <<>> THEN t
    ELSE LET i == PosOf(t, Head(ids))
         IN IF i # 0 /\ is_spacer(t[i]) /\ ParentIx(t, i) # 0
            THEN SpacerLoop(drop_tree(t, i), Tail(ids))
            ELSE SpacerLoop(t, Tail(ids))

RECURSIVE MapLoop(_, _)
\* Lines 184-185: for map_el in tree.iter("map"): map_el.drop_tree(), over
\* the live iterator.  When the element fixed as next lies inside the map
\* being dropped, the iteration goes on in the dropped subtree and ends
\* there: the maps after it in the tree are not visited.
MapLoop(t, cur) ==
    IF cur = 0 THEN t
    ELSE LET i == PosOf(t, cur)
             nxt == NextWithTag(t, i, "map")
         IN IF nxt # 0 /\ nxt <= End(t, i)
            THEN drop_tree(t, i)
            ELSE MapLoop(drop_tree(t, i), IdAt(t, nxt))

\* _strip_layout_tables(html)
strip_layout_tables(t, order) ==
    LET t1 == DropLayoutTags(t, order)
        t2 == SpacerLoop(t1, IterIds(t1, "img"))
    IN MapLoop(t2, IdAt(t2, NextWithTag(t2, 0, "map")))


(***************************************************************************)
(* The sanitizer passes on a parsed document                               *)
(* parse_eml runs them at email.py:188, email.py:189 and email.py:197.     *)
(* Every pass parses its input and serializes its result; the model keeps  *)
(* the tree between the passes.                                            *)
(***************************************************************************)
TrackedHref == <<"/", "/", "h", "/", "p", "?", "u", "t", "m", "_", "s", "o", "u", "r", "c", "e", "=", "x", "&", "a", "=", "1">>

\* The elements the documents are made of (depth is set on insertion).
SanKinds ==
    { El("table", 0, <<>>, <<"f">>, NoAttrs),
      El("td", 0, <<"a">>, <<>>, NoAttrs),
      El("p", 0, <<"b">>, <<>>, NoAttrs),
      El("map", 0, <<>>, <<"e">>, NoAttrs),
      El("a", 0, <<"l">>, <<>>, [NoAttrs EXCEPT !["href"] = TrackedHref]),
      El("img", 0, <<>>, <<>>, [NoAttrs EXCEPT !["src"] = Src1]),
      El("img", 0, <<>>, <<"c">>,
         [NoAttrs EXCEPT !["width"] = <<"1">>, !["height"] = <<"0">>]),
      El("img", 0, <<>>, <<"d">>, [NoAttrs EXCEPT !["width"] = <<"1">>]),
      El("img", 0, <<>>, <<>>, [NoAttrs EXCEPT !["style"] = <<"d", "i", "s", "p", "l", "a", "y", ":", " ", "n", "o", "n", "e">>]),
      El("img", 0, <<>>, <<>>, [NoAttrs EXCEPT !["src"] = <<"/", "/", "h", "/", "P", "i", "x", "e", "l">>]),
      El("img", 0, <<>>, <<>>,
         [NoAttrs EXCEPT !["src"] = Src2, !["usemap"] = <<"#", "m">>]) }

\* Nestings the HTML parser produces: it closes a <p> or an <a> before a
\* <table>, a <td> before a <td>, and gives an <img> no children.
CanHold(parent, child) ==
    CASE parent = "body" -> child # "td"
      [] parent = "table" -> child = "td"
      [] parent = "td" -> child # "td"
      [] parent = "p" -> child \in {"img", "a"}
      [] parent = "a" -> child = "img"
      [] parent = "map" -> child \in {"map", "img"}
      [] OTHER -> FALSE

\* The tag of the element that a new last element at depth d hangs under.
OpenTagAt(kids, d) ==
    IF d = 0 THEN "body"
    ELSE kids[Max({i \in 1..Len(kids) : kids[i].depth = d - 1})].tag

\* The children lists (in document order) one element longer than kids.
ExtendKids(kids) ==
    { Append(kids, [k EXCEPT !.depth = d]) :
        <<k, d>> \in { kd \in SanKinds \X (0..(IF kids = <<>> THEN 0
                                                ELSE kids[Len(kids)].depth + 1)) :
                        CanHold(OpenTagAt(kids, kd[2]), kd[1].tag) } }

RECURSIVE SanKids(_)
\* The children lists of at most n elements.
SanKids(n) ==
    IF n = 0 THEN {<<>>}
    ELSE LET shorter == SanKids(n - 1)
         IN shorter \cup UNION { ExtendKids(kids) :
                                    kids \in {x \in shorter : Len(x) = n - 1} }

\* The documents of at most n elements below the body.
SanDocs(n) == { WithIds(HtmlBody(kids)) : kids \in SanKids(n) }

\* The HTML that is one <img> and nothing else: lxml.html.fromstring gives
\* back the img itself as the tree (line 31).
SanFragments ==
    { WithIds(<< [k EXCEPT !.tail = <<>>] >>) : k \in {x \in SanKinds : x.tag = "img"} }

\* The HTML body has been parsed.
SanitizeInit ==
    /\ pc = "san:parsed"
    /\ san_input \in SanDocs(MaxSanNodes) \cup SanFragments
    /\ san_tree = san_input
    /\ san_before = Nothing /\ san_first = Nothing
    /\ san_round = 1
    /\ ChunkIdle /\ ImagesIdle /\ EmailIdle /\ CallsIdle /\ TtsIdle

\* email.py:188
StripTrackingPixels ==
    /\ pc = "san:parsed"
    /\ pc' = "san:pixels"
    /\ san_before' = san_tree
    /\ san_tree' = strip_tracking_pixels(san_tree)
    /\ UNCHANGED <<san_input, san_first, san_round, chunkVars, imageVars, emailVars,
                 callVars, ttsVars>>

\* email.py:189
StripUtmParams ==
    /\ pc = "san:pixels"
    /\ pc' = "san:utm"
    /\ san_before' = san_tree
    /\ san_tree' = strip_utm_params(san_tree)
    /\ UNCHANGED <<san_input, san_first, san_round, chunkVars, imageVars, emailVars,
                 callVars, ttsVars>>

\* email.py:197
StripLayoutTables ==
    /\ pc = "san:utm"
    /\ pc' = "san:layout"
    /\ san_before' = san_tree
    /\ \E order \in LayoutTagOrders :
          san_tree' = strip_layout_tables(san_tree, order)
    /\ UNCHANGED <<san_input, san_first, san_round, chunkVars, imageVars, emailVars,
                 callVars, ttsVars>>

\* The passes are given their own output.
SanitizeAgain ==
    /\ pc = "san:layout" /\ san_round = 1
    /\ pc' = "san:parsed"
    /\ san_round' = 2
    /\ san_first' = san_tree
    /\ san_before' = Nothing
    /\ UNCHANGED <<san_input, san_tree, chunkVars, imageVars, emailVars,
                 callVars, ttsVars>>

SanitizeNext ==
    StripTrackingPixels \/ StripUtmParams \/ StripLayoutTables \/ SanitizeAgain

SpecSanitize == SanitizeInit /\ [][SanitizeNext]_vars

\* C4: running the three sanitizer passes a second time, on their own
\* output, gives the tree the first run gave.
C4_SanitizerIdempotent ==
    (pc = "san:layout" /\ san_round = 2) => san_tree = san_first


(***************************************************************************)
(* _strip_utm_params on the links of an email                              *)
(***************************************************************************)
HrefBase == <<"/", "/", "h", "/", "p">>

\* The name=value fields the queries are made of: plain, blank, bare and
\* empty fields, denylisted keys in either case, percent escapes.
QueryFields ==
    { <<>>,
      <<"a", "=", "1">>,
      <<"a", "=", "2">>,
      <<"b", "=">>,
      <<"c">>,
      <<"s", "=", "1">>,
      <<"R", "e", "f", "=", "2">>,
      <<"u", "t", "m", "_", "s", "o", "u", "r", "c", "e", "=", "x">>,
      <<"d", "=", "%", "F", "F">>,
      <<"e", "=", "%", "2", "0">> }

\* The queries of at most n fields.
Queries(n) == { Join(fs, <<"&">>) : fs \in SeqsUpTo(QueryFields, n) }

Fragments == { <<>>, <<"#", "f">>, <<"#", "f", "?", "s", "=", "1">> }

Hrefs(n) ==
    { HrefBase \o q \o f :
        q \in {<<>>} \cup { <<"?">> \o x : x \in Queries(n) }, f \in Fragments }

\* <p>b<a href=...>l</a><a>m</a></p>: a link and an <a> without href.
LinkDocs(n) ==
    { WithIds(HtmlBody(
        << El("p", 0, <<"b">>, <<>>, NoAttrs),
           El("a", 1, <<"l">>, <<>>, [NoAttrs EXCEPT !["href"] = h]),
           El("a", 1, <<"m">>, <<>>, NoAttrs) >>)) : h \in Hrefs(n) }

\* email.py:188 has run on an email that holds no image.
LinksInit ==
    /\ pc = "san:pixels"
    /\ san_input \in LinkDocs(MaxParams)
    /\ san_before = san_input /\ san_tree = san_input
    /\ san_first = Nothing
    /\ san_round = 1
    /\ ChunkIdle /\ ImagesIdle /\ EmailIdle /\ CallsIdle /\ TtsIdle

LinksNext == StripUtmParams

SpecLinks == LinksInit /\ [][LinksNext]_vars

(***************************************************************************)
(* Claims about _strip_utm_params                                          *)
(***************************************************************************)
RECURSIVE OctetsOf(_)
\* The octets a piece of query text stands for, written one way: "+" as
\* the escape of the space, every escape as it is.
OctetsOf(str) ==
    IF str = <<>> THEN <<>>
    ELSE IF Head(str) = "+" THEN <<"%", "2", "0">> \o OctetsOf(Tail(str))
    ELSE <<Head(str)>> \o OctetsOf(Tail(str))

\* The name=value fields of the query of an href, as written.
FieldsOf(href) ==
    LET fs == SelectSeq(SplitOn(urlparse(href).query, <<"&">>[1]),
                        LAMBDA f : f # <<>>)
    IN [i \in 1..Len(fs) |-> Field(fs[i])]

Denylisted(key) == Lower(unquote_plus(key)) \in TRACKING_PARAMS

KeysOf(href) == { FieldsOf(href)[i].key : i \in 1..Len(FieldsOf(href)) }

\* The values the href gives to key, in order.
ValuesOf(href, key) ==
    LET mine == SelectSeq(FieldsOf(href), LAMBDA f : f.key = key)
    IN [i \in 1..Len(mine) |-> OctetsOf(mine[i].value)]

\* The positions of the links the pass has looked at.
Links == { i \in 1..Len(san_before) :
             san_before[i].tag = "a" /\ san_before[i].at["href"] # Absent }

\* C5: after tracking-parameter stripping every href has the scheme, host,
\* path and fragment it had, every key that is not denylisted has the
\* values it had, and an href without a denylisted key is as it was.
C5_OnlyDenylistedKeysRemoved ==
    pc = "san:utm" =>
        \A i \in Links :
            LET old == san_before[i].at["href"]
                new == san_tree[i].at["href"]
            IN /\ urlparse(new).base = urlparse(old).base
               /\ urlparse(new).fragment = urlparse(old).fragment
               /\ \A k \in KeysOf(old) \cup KeysOf(new) :
                     ~Denylisted(k) => ValuesOf(new, k) = ValuesOf(old, k)
               /\ (\A k \in KeysOf(old) : ~Denylisted(k)) => new = old


(***************************************************************************)
(* email.py: _extract_html_body                                            *)
(***************************************************************************)
\* Python's None, as a value no string equals.
None == <<"(None)">>

RECURSIVE Replace(_, _, _)
\* str.replace(c, rep) for a one-character c
Replace(str, c, rep) ==
    IF str = <<>> THEN <<>>
    ELSE (IF Head(str) = c THEN rep ELSE <<Head(str)>>)
            \o Replace(Tail(str), c, rep)

Amp == <<"&", "a", "m", "p", ";">>

Lt == <<"&", "l", "t", ";">>

Gt == <<"&", "g", "t", ";">>

\* Lines 121 and 133 with "&" replaced last.
escape_amp_last(str) == Replace(Replace(Replace(str, "<", Lt), ">", Gt), "&", Amp)

\* Lines 121 and 133:
\* text.replace("&", "&amp;").replace("<", "&lt;").replace(">", "&gt;")
escape(str) == Replace(Replace(Replace(str, "&", Amp), "<", Lt), ">", Gt)

PreOpen == <<"<", "h", "t", "m", "l", ">", "<", "b", "o", "d", "y", ">", "<", "p", "r", "e", ">">>

PreClose == <<"<", "/", "p", "r", "e", ">", "<", "/", "b", "o", "d", "y", ">", "<", "/", "h", "t", "m", "l", ">">>

\* Lines 122 and 134
wrap_pre(str) == PreOpen \o escape(str) \o PreClose

\* The payloads of the parts with content type ct, in walk order.
PartsOfType(parts, ct) ==
    LET hits == SelectSeq(parts, LAMBDA part : part.ct = ct)
    IN [i \in 1..Len(hits) |-> hits[i].payload]

\* _extract_html_body(msg).  m.parts is msg.walk() below the root, which for
\* a multipart message is neither text/html nor text/plain.
extract_html_body(m) ==
    IF m.multipart
    THEN LET html_parts == PartsOfType(m.parts, "text/html")
             plain_parts == PartsOfType(m.parts, "text/plain")
         IN IF html_parts # <<>> THEN html_parts[1]
            ELSE IF plain_parts # <<>> THEN wrap_pre(plain_parts[1])
            ELSE None
    ELSE IF m.ct = "text/html" THEN m.payload
    ELSE IF m.ct = "text/plain" THEN wrap_pre(m.payload)
    ELSE None

(***************************************************************************)
(* email.py: parse_eml                                                     *)
(***************************************************************************)
\* Line 210
MinContentLen == 20

UntitledEmail == <<"U", "n", "t", "i", "t", "l", "e", "d", " ", "E", "m", "a", "i", "l">>

Unknown == <<"U", "n", "k", "n", "o", "w", "n">>

\* Lines 160-164: author from parseaddr's (name, address).
sender_name_of(from) ==
    IF from.name # <<>> THEN from.name
    ELSE IF from.email = <<>> THEN Unknown
    ELSE SplitOn(from.email, "@")[1]

\* Lines 167-171
title_of(subject) ==
    IF subject = Absent \/ Strip(subject) = <<>> THEN UntitledEmail
    ELSE Strip(subject)

DateOk == <<"o", "k">>

DateBad == <<"b", "a", "d">>

\* A Date header whose day number does not fit a C int, as in
\* "Date: 99999999999 Jan 2024 00:00:00".
DateOverflow == <<"9", "9", "9", "9", "9", "9", "9", "9", "9", "9", "9">>

OverflowError == <<"O", "v", "e", "r", "f", "l", "o", "w", "E", "r", "r", "o", "r">>

\* Line 175: msg.get("Date") under policy.default parses the header when it
\* is fetched; the registry's date parser catches ValueError only, and the
\* OverflowError of an oversized number leaves msg.get, above the try of
\* lines 177-180.
header_fetch_raises(headers) == headers.date = DateOverflow

\* Lines 174-180: parsedate_to_datetime gives a datetime for a well-formed
\* Date header and raises for another one.
published_at_of(date) ==
    IF date = Absent \/ date = <<>> \/ date # DateOk THEN None ELSE date

RECURSIVE Collapse(_)
\* re.sub(r"\n{3,}", "\n\n", s): every maximal run of three or more
\* newlines becomes two.
Collapse(str) ==
    IF str = <<>> THEN <<>>
    ELSE IF Head(str) # "\n" THEN <<Head(str)>> \o Collapse(Tail(str))
    ELSE LET others == {i \in 1..Len(str) : str[i] # "\n"}
             run == IF others = {} THEN Len(str) ELSE Min(others) - 1
         IN (IF run >= 3 THEN <<"\n", "\n">> ELSE SubSeq(str, 1, run))
                \o Collapse(From(str, run + 1))

\* web.py:250 and email.py:208 without the re.sub.
strip_only(str) == Strip(str)

\* web.py:250 and email.py:208
collapse_and_strip(str) == Strip(Collapse(str))

\* Line 210 without the length test.
too_short_only_empty(cm) == cm = <<>>

\* Line 210
too_short(cm) == cm = <<>> \/ Len(cm) < MinContentLen


\* The text a piece of HTML shows: what stands outside its tags.
VisibleText(str) ==
    SelectSeq([i \in 1..Len(str) |->
                  IF \/ str[i] \in {"<", ">"}
                     \/ \E j \in 1..(i - 1) :
                           /\ str[j] = "<"
                           /\ \A k \in (j + 1)..(i - 1) : str[k] # ">"
                  THEN "" ELSE str[i]],
              LAMBDA c : c # "")

HtmlPayloads == { <<>>, <<"<", "p", ">", "a", "<", "/", "p", ">">>, <<"<", "b", ">", "b", "<", "/", "b", ">">>, <<"<", "p", ">", " ", "<", "/", "p", ">">> }

PlainPayloads == { <<>>, <<" ">>, <<"a">>, <<"a", "&", "<", "b", ">">> }

\* The parts a walk meets: text/html, text/plain, an attachment, a nested
\* multipart container.
Parts ==
    [ct : {"text/html"}, payload : HtmlPayloads]
        \cup [ct : {"text/plain"}, payload : PlainPayloads]
        \cup [ct : {"image/png", "multipart/alternative"}, payload : {<<>>}]

\* What From, Subject and Date hold (from is what parseaddr makes of From).
Headers ==
    { [from |-> [name |-> <<>>, email |-> <<>>], subject |-> Absent,
       date |-> Absent],
      [from |-> [name |-> <<>>, email |-> <<"u", "@", "h">>], subject |-> <<" ">>,
       date |-> DateBad],
      [from |-> [name |-> <<"N">>, email |-> <<"u", "@", "h">>], subject |-> <<" ", "t", " ">>,
       date |-> DateOk],
      [from |-> [name |-> <<"N">>, email |-> <<"u", "@", "h">>], subject |-> <<"t">>,
       date |-> DateOverflow] }

\* The messages of at most n parts below a multipart root, and the messages
\* of one part.
Messages(n) ==
    { [multipart |-> TRUE, ct |-> "multipart/mixed", payload |-> <<>>,
       parts |-> ps, headers |-> h] :
        ps \in SeqsUpTo(Parts, n), h \in Headers }
    \cup
    { [multipart |-> FALSE, ct |-> part.ct, payload |-> part.payload,
       parts |-> <<>>, headers |-> h] :
        part \in {x \in Parts : x.ct # "multipart/alternative"}, h \in Headers }

\* n times the character c
Rep(c, n) == [i \in 1..n |-> c]

\* Markdown around the length of line 210: two runs of letters, newlines
\* between them, whitespace around them.
LongMd ==
    { front \o Rep("a", n[1]) \o mid \o Rep("a", n[2]) \o back :
        front \in {<<>>, <<"\n">>, <<" ">>},
        back \in {<<>>, <<" ", "\n">>},
        mid \in {<<>>, <<"\n", "\n", "\n">>},
        n \in { <<0, 0>>, <<MinContentLen - 1, 0>>, <<MinContentLen, 0>>,
                <<MinContentLen \div 2, MinContentLen \div 2 - 1>>,
                <<MinContentLen \div 2 - 1, MinContentLen \div 2 - 1>>,
                <<MinContentLen \div 2 - 1, MinContentLen \div 2 - 2>> } }

MdChars == {"a", " ", "\n", "\t"}

\* What md() may return: LongMd, and everything of at most n characters.
MdOutputs(n) == LongMd \cup SeqsUpTo(MdChars, n)

NoContent == <<"E", "m", "a", "i", "l", " ", "h", "a", "s", " ", "n", "o", " ", "t", "e", "x", "t", "/", "h", "t", "m", "l", " ", "o", "r", " ", "t", "e", "x", "t", "/", "p", "l", "a", "i", "n", " ", "c", "o", "n", "t", "e", "n", "t">>

TooShort == <<"E", "x", "t", "r", "a", "c", "t", "e", "d", " ", "c", "o", "n", "t", "e", "n", "t", " ", "t", "o", "o", " ", "s", "h", "o", "r", "t">>

\* Line 157: the message has been parsed.
EmailInit ==
    /\ pc = "eml:parsed"
    /\ msg \in Messages(MaxParts)
    /\ html_body = Nothing /\ md = Nothing /\ content_md = Nothing
    /\ record = Nothing /\ error = Nothing
    /\ ChunkIdle /\ ImagesIdle /\ SanitizeIdle /\ CallsIdle /\ TtsIdle

\* Lines 160-180: From, Subject and Date are fetched from the message.  An
\* exception of the header parser that parse_eml does not catch ends the
\* call.
ExtractHeaders ==
    /\ pc = "eml:parsed"
    /\ IF header_fetch_raises(msg.headers)
       THEN pc' = "eml:crashed" /\ error' = OverflowError
       ELSE pc' = "eml:headers" /\ error' = error
    /\ UNCHANGED <<msg, html_body, md, content_md, record, chunkVars, imageVars,
                 sanitizeVars, callVars, ttsVars>>

\* Lines 183-185
ExtractBody ==
    /\ pc = "eml:headers"
    /\ html_body' = extract_html_body(msg)
    /\ IF html_body' \in {None, <<>>}
       THEN pc' = "eml:failed" /\ error' = NoContent
       ELSE pc' = "eml:body" /\ error' = error
    /\ UNCHANGED <<msg, md, content_md, record, chunkVars, imageVars, sanitizeVars,
                 callVars, ttsVars>>

\* Lines 188-205: the sanitizer passes, readability and md() are given the
\* body.  md() is a library: it returns some Markdown, and no text for a
\* body that shows none.
Convert ==
    /\ pc = "eml:body"
    /\ pc' = "eml:converted"
    /\ md' \in LongMd
    /\ NonWs(VisibleText(html_body)) = <<>> => NonWs(md') = <<>>
    /\ UNCHANGED <<msg, html_body, content_md, record, error, chunkVars,
                   imageVars, sanitizeVars,
                 callVars, ttsVars>>

\* Lines 208-220
Finish ==
    /\ pc = "eml:converted"
    /\ content_md' = collapse_and_strip(md)
    /\ IF too_short(content_md')
       THEN pc' = "eml:failed" /\ error' = TooShort /\ record' = record
       ELSE /\ pc' = "eml:returned"
            /\ error' = error
            /\ record' = [title |-> title_of(msg.headers.subject),
                          author |-> sender_name_of(msg.headers.from),
                          content_md |-> content_md',
                          url |-> <<>>,
                          published_at |-> published_at_of(msg.headers.date),
                          email_sender |-> msg.headers.from.email]
    /\ UNCHANGED <<msg, html_body, md, chunkVars, imageVars, sanitizeVars,
                 callVars, ttsVars>>

EmailNext == ExtractHeaders \/ ExtractBody \/ Convert \/ Finish

SpecEmail == EmailInit /\ [][EmailNext]_vars


(***************************************************************************)
(* The Markdown clean-up of fetch_and_extract and of parse_eml             *)
(***************************************************************************)
\* A page of one paragraph, as fetch_and_extract has it after line 239.
OnePage == WithIds(HtmlBody(<< El("p", 0, <<"a">>, <<>>, NoAttrs) >>))

\* A message of one text/html part.
OneMessage ==
    [multipart |-> FALSE, ct |-> "text/html", payload |-> <<"<", "p", ">", "a", "<", "/", "p", ">">>,
     parts |-> <<>>,
     headers |-> [from |-> [name |-> <<"N">>, email |-> <<"u", "@", "h">>],
                  subject |-> <<"t">>, date |-> DateOk]]

\* web.py:247 or email.py:205: md() has returned.
MarkdownInit ==
    /\ md \in MdOutputs(MaxMdLen)
    /\ content_md = Nothing /\ record = Nothing /\ error = Nothing
    /\ \/ /\ pc = "web:converted"
          /\ html = OnePage
          /\ images = collect_content_images(html)
          /\ content_html = html
          /\ reinjected = reinject_images(content_html, images)
          /\ msg = Nothing /\ html_body = Nothing
       \/ /\ pc = "eml:converted"
          /\ msg = OneMessage
          /\ html_body = extract_html_body(msg)
          /\ ImagesIdle
    /\ ChunkIdle /\ SanitizeIdle /\ CallsIdle /\ TtsIdle

\* web.py:250-257
WebFinish ==
    /\ pc = "web:converted"
    /\ pc' = "web:returned"
    /\ content_md' = collapse_and_strip(md)
    /\ UNCHANGED <<msg, html_body, md, record, error, chunkVars, imageVars,
                   sanitizeVars,
                 callVars, ttsVars>>

MarkdownNext == WebFinish \/ Finish

SpecMarkdown == MarkdownInit /\ [][MarkdownNext]_vars

(***************************************************************************)
(* Claims about parse_eml and the Markdown clean-up                        *)
(***************************************************************************)
RecordKeys ==
    {"title", "author", "content_md", "url", "published_at", "email_sender"}

\* Where the walk meets parts of content type ct.
WalkParts(m) ==
    IF m.multipart THEN m.parts ELSE <<[ct |-> m.ct, payload |-> m.payload]>>

IndexesOfType(m, ct) ==
    {i \in 1..Len(WalkParts(m)) : WalkParts(m)[i].ct = ct}

\* The payload the body is to be taken from: the first text/html part, or
\* the first text/plain part when there is no text/html part.
BodySource(m) ==
    IF IndexesOfType(m, "text/html") # {}
    THEN WalkParts(m)[Min(IndexesOfType(m, "text/html"))].payload
    ELSE IF IndexesOfType(m, "text/plain") # {}
    THEN WalkParts(m)[Min(IndexesOfType(m, "text/plain"))].payload
    ELSE <<>>

\* C6: parse_eml returns a record only when the trimmed Markdown has at
\* least 20 characters and fails otherwise, as it does for every email with
\* an empty body; a failure returns nothing, and a returned record carries
\* title, author, content_md, url, published_at and email_sender.
C6_RecordOnlyForLongEnoughMarkdown ==
    /\ pc = "eml:returned" =>
          /\ Len(Strip(md)) >= MinContentLen
          /\ DOMAIN record = RecordKeys
          /\ record.content_md = content_md
          /\ Len(record.content_md) >= MinContentLen
          /\ record.title # <<>> /\ record.author # <<>>
    /\ pc \in {"eml:parsed", "eml:body", "eml:converted", "eml:failed"} =>
          record = Nothing
    /\ pc = "eml:failed" => error \in {NoContent, TooShort}
    /\ pc \in {"eml:returned", "eml:failed"} =>
          /\ Len(Strip(md)) < MinContentLen => pc = "eml:failed"
          /\ NonWs(BodySource(msg)) = <<>> => pc = "eml:failed"

C6_Witness ==
    /\ pc = "eml:returned"
    /\ Len(record.content_md) = MinContentLen
    /\ Len(md) > MinContentLen

EscapeChar(c) ==
    CASE c = "&" -> Amp [] c = "<" -> Lt [] c = ">" -> Gt [] OTHER -> <<c>>

\* C7: the body is the first text/html part of the walk when there is one;
\* otherwise the first text/plain part, HTML-escaped inside
\* <html><body><pre>; with neither, parse_eml fails for missing content.
C7_FirstHtmlElseFirstPlain ==
    pc \in {"eml:body", "eml:converted", "eml:returned", "eml:failed"} =>
        IF IndexesOfType(msg, "text/html") # {}
        THEN html_body = WalkParts(msg)[Min(IndexesOfType(msg, "text/html"))].payload
        ELSE IF IndexesOfType(msg, "text/plain") # {}
        THEN LET plain == WalkParts(msg)[Min(IndexesOfType(msg, "text/plain"))].payload
             IN html_body = PreOpen
                    \o Flatten([i \in 1..Len(plain) |-> EscapeChar(plain[i])])
                    \o PreClose
        ELSE html_body = None /\ pc = "eml:failed" /\ error = NoContent

C7_Witness ==
    /\ pc = "eml:body"
    /\ msg.multipart
    /\ IndexesOfType(msg, "text/html") = {}
    /\ Cardinality(IndexesOfType(msg, "text/plain")) = 2
    /\ msg.parts[1].payload # msg.parts[2].payload
    /\ Contains(Amp \o Lt, html_body)

\* C10: the Markdown fetch_and_extract and parse_eml return holds no run of
\* three newlines and neither starts nor ends with whitespace.
C10_NoTripleNewlineNoEdgeWhitespace ==
    pc \in {"web:returned", "eml:returned"} =>
        /\ ~Contains(<<"\n", "\n", "\n">>, content_md)
        /\ content_md # <<>> =>
              ~IsWs(content_md[1]) /\ ~IsWs(content_md[Len(content_md)])
        /\ pc = "eml:returned" => record.content_md = content_md

C10_Witness ==
    /\ pc = "eml:returned"
    /\ Contains(<<"\n", "\n", "\n">>, md)
    /\ IsWs(md[1]) /\ IsWs(md[Len(md)])

(***************************************************************************)
(* Claims about the chunk boundaries of chunk_text                         *)
(***************************************************************************)
RECURSIVE ChunkSpans(_, _, _)
\* Where the chunks cs lie in t, as <<first, last>> positions shifted by
\* off: each chunk starts at the first character that is not whitespace
\* after the chunk before it.
ChunkSpans(t, cs, off) ==
    IF cs = <<>> THEN <<>>
    ELSE LET solid == {i \in 1..Len(t) : ~IsWs(t[i])}
             first == IF solid = {} THEN 1 ELSE Min(solid)
             last == first + Len(Head(cs)) - 1
         IN << <<off + first, off + last>> >>
                \o ChunkSpans(From(t, last + 1), Tail(cs), off + last)

RECURSIVE ParaSpans(_, _)
\* Where the paragraphs of t lie, as <<first, last>> positions shifted by
\* off: the pieces between "\n\n", without the whitespace around them, the
\* empty ones left out.
ParaSpans(t, off) ==
    LET hits == {i \in 1..(Len(t) - 1) : t[i] = "\n" /\ t[i + 1] = "\n"}
        piece == IF hits = {} THEN t ELSE SubSeq(t, 1, Min(hits) - 1)
        solid == {i \in 1..Len(piece) : ~IsWs(piece[i])}
        here == IF solid = {} THEN <<>>
                ELSE << <<off + Min(solid), off + Max(solid)>> >>
    IN IF hits = {} THEN here
       ELSE here \o ParaSpans(From(t, Min(hits) + 2), off + Min(hits) + 1)

\* The boundary after the chunk that ends at position last of t, the next
\* chunk starting at position first, lies on a paragraph break.
OnParagraphBreak(t, last, first) ==
    Contains(<<"\n", "\n">>, SubSeq(t, last + 1, first - 1))

\* It lies directly after a period followed by a space.
AfterPeriodSpace(t, last, first) ==
    t[last] = "." /\ last + 1 < first /\ t[last + 1] = " "

\* C11: every boundary between two consecutive chunks lies on a paragraph
\* break of the text or, inside a paragraph longer than max_chars, directly
\* after a period followed by a space; a paragraph of at most max_chars
\* characters lies within one chunk.
C11_BoundariesOnBreaksOrSentences ==
    pc = "returned" =>
        LET t == NormalizeBreaks(text)
            cspans == ChunkSpans(t, chunks, 0)
            pspans == ParaSpans(t, 0)
        IN /\ \A i \in 1..(Len(chunks) - 1) :
                 \/ OnParagraphBreak(t, cspans[i][2], cspans[i + 1][1])
                 \/ /\ AfterPeriodSpace(t, cspans[i][2], cspans[i + 1][1])
                    /\ \E p \in 1..Len(pspans) :
                          /\ pspans[p][1] <= cspans[i][2]
                          /\ cspans[i + 1][1] <= pspans[p][2]
                          /\ pspans[p][2] - pspans[p][1] + 1 > max_chars
           /\ \A p \in 1..Len(pspans) :
                 pspans[p][2] - pspans[p][1] + 1 <= max_chars =>
                    \E i \in 1..Len(chunks) :
                        cspans[i][1] <= pspans[p][1] /\ pspans[p][2] <= cspans[i][2]

C11_Witness ==
    /\ pc = "returned"
    /\ Len(chunks) >= 3
    /\ LET t == NormalizeBreaks(text)
           cspans == ChunkSpans(t, chunks, 0)
       IN /\ \E i \in 1..(Len(chunks) - 1) :
                OnParagraphBreak(t, cspans[i][2], cspans[i + 1][1])
          /\ \E i \in 1..(Len(chunks) - 1) :
                AfterPeriodSpace(t, cspans[i][2], cspans[i + 1][1])

(***************************************************************************)
(* Claims about the order of the query parameters                          *)
(***************************************************************************)
\* The fields of the href whose key is not denylisted, in order, each as
\* <<key, value>>.
KeptFields(href) ==
    LET kept == SelectSeq(FieldsOf(href), LAMBDA f : ~Denylisted(f.key))
    IN [i \in 1..Len(kept) |-> <<kept[i].key, OctetsOf(kept[i].value)>>]

\* No percent escape in the href.
PlainHref(href) == IndexOf(href, "%") = 0

\* C12: an href that tracking-parameter stripping rewrites keeps its
\* non-dropped query parameters in their order, with their values.
C12_KeptParametersKeepOrder ==
    pc = "san:utm" =>
        \A i \in Links :
            LET old == san_before[i].at["href"]
                new == san_tree[i].at["href"]
            IN (new # old /\ PlainHref(old)) => KeptFields(new) = KeptFields(old)

(***************************************************************************)
(* Claims about _strip_tracking_pixels                                     *)
(***************************************************************************)
OneOrZero == {<<"0">>, <<"1">>}

\* (a), (b) or (c) holds of the img n.
MeetsPixelCriteria(n) ==
    \/ n.at["width"] \in OneOrZero /\ n.at["height"] \in OneOrZero
    \/ /\ n.at["style"] # Absent
       /\ \/ Contains(DisplayNone, SelectSeq(n.at["style"], LAMBDA c : c # " "))
          \/ Contains(VisibilityHidden, SelectSeq(n.at["style"], LAMBDA c : c # " "))
    \/ /\ n.at["src"] # Absent
       /\ \E pat \in tracking_patterns : Contains(pat, Lower(n.at["src"]))

\* C13: tracking-pixel removal removes an img if and only if (a) its width
\* and height are both "0" or "1", or (b) its style without spaces contains
\* display:none or visibility:hidden, or (c) its lower-cased src contains a
\* tracking substring.
C13_RemovedIffPixelCriteria ==
    pc = "san:pixels" =>
        \A i \in 1..Len(san_before) :
            san_before[i].tag = "img" =>
                (PosOf(san_tree, san_before[i].id) = 0
                    <=> MeetsPixelCriteria(san_before[i]))

(***************************************************************************)
(* Claims about _strip_layout_tables                                       *)
(***************************************************************************)
\* The indexes of the ancestors of t[i].
Ancestors(t, i) == {j \in 1..(i - 1) : i <= End(t, j)}

\* t[i] is not a layout tag and is not in the tree after the pass: a
\* spacer image or a map that was dropped, or an element inside one.
Dropped(t, after, i) ==
    t[i].tag \notin LAYOUT_TAGS /\ PosOf(after, t[i].id) = 0

\* t without the text that left with the dropped elements: the text of a
\* dropped element, and text and tail of what lies inside one.
WithoutDroppedText(t, after) ==
    [i \in 1..Len(t) |->
        IF \E j \in Ancestors(t, i) : Dropped(t, after, j)
        THEN [t[i] EXCEPT !.text = <<>>, !.tail = <<>>]
        ELSE IF Dropped(t, after, i) THEN [t[i] EXCEPT !.text = <<>>]
        ELSE t[i]]

\* The identity of the nearest ancestor of t[i] that is not a layout tag
\* (0 for the root).
NearestKeptAncestor(t, i) ==
    LET up == {j \in Ancestors(t, i) : t[j].tag \notin LAYOUT_TAGS}
    IN IF up = {} THEN 0 ELSE t[Max(up)].id

MaxChunks == 3

\* The chunks chunk_text returned for the speech text: stripped, non-empty.
ChunkTexts == {<<"a">>, <<"b", ".">>}

ChunkLists == SeqsUpTo(ChunkTexts, MaxChunks)

\* The bodies a speech response can carry (bytes as numbers).
Mp3Bodies == {<<1>>, <<2, 3>>}

\* The statuses of a speech response.
TtsStatuses == {200, 429, 500}

\* b"".join(mp3_parts) with the parts in the wrong order.
join_reversed(parts) ==
    Flatten([k \in 1..Len(parts) |-> parts[Len(parts) + 1 - k]])

\* b"".join(mp3_parts)
join(parts) == Flatten(parts)

\* _estimate_mp3_duration keeps the byte count; the row of the audio table
\* holds the size of what was written.
AudioRow(mp3_bytes) == [file_size_bytes |-> Len(mp3_bytes)]

\* After chunks = chunk_text(speech_text): nothing requested, nothing stored.
TtsInit ==
    /\ ChunkIdle /\ ImagesIdle /\ SanitizeIdle /\ EmailIdle /\ CallsIdle
    /\ pc = "tts:chunked"
    /\ \E cs \in ChunkLists, key \in BOOLEAN :
          tts = [chunks |-> cs, api_key |-> key, i |-> 0, in_flight |-> FALSE,
                 requests |-> <<>>, responses |-> <<>>, returned |-> 0,
                 mp3_parts |-> <<>>, stored |-> FALSE, file |-> <<>>,
                 row |-> Nothing, error |-> <<>>]

\* if not chunks: raise ValueError
CheckChunks ==
    /\ pc = "tts:chunked"
    /\ IF tts.chunks = <<>>
       THEN /\ pc' = "tts:failed"
            /\ tts' = [tts EXCEPT !.error = <<"ValueError">>]
       ELSE /\ pc' = "tts:loop"
            /\ tts' = tts
    /\ UNCHANGED <<chunkVars, imageVars, sanitizeVars, emailVars, callVars>>

\* _call_openai_tts(chunk, config) up to client.post: without a key it raises
\* before any request is made.
CallOpenaiTts ==
    /\ pc = "tts:loop"
    /\ ~tts.in_flight
    /\ tts.i < Len(tts.chunks)
    /\ IF ~tts.api_key
       THEN /\ pc' = "tts:failed"
            /\ tts' = [tts EXCEPT !.error = <<"RuntimeError">>,
                                  !.returned = @ + 1]
       ELSE /\ pc' = pc
            /\ tts' = [tts EXCEPT !.requests = Append(@, tts.chunks[tts.i + 1]),
                                  !.in_flight = TRUE]
    /\ UNCHANGED <<chunkVars, imageVars, sanitizeVars, emailVars, callVars>>

\* client.post returns: a status other than 200 raises RuntimeError, a 200
\* hands response.content to mp3_parts.append.
OpenaiTtsReturns ==
    /\ pc = "tts:loop"
    /\ tts.in_flight
    /\ \E status \in TtsStatuses, content \in Mp3Bodies :
          LET resp == [status |-> status, content |-> content]
          IN IF status # 200
             THEN /\ pc' = "tts:failed"
                  /\ tts' = [tts EXCEPT !.responses = Append(@, resp),
                                        !.returned = @ + 1,
                                        !.in_flight = FALSE,
                                        !.error = <<"RuntimeError">>]
             ELSE /\ pc' = pc
                  /\ tts' = [tts EXCEPT !.responses = Append(@, resp),
                                        !.returned = @ + 1,
                                        !.in_flight = FALSE,
                                        !.mp3_parts = Append(@, content),
                                        !.i = @ + 1]
    /\ UNCHANGED <<chunkVars, imageVars, sanitizeVars, emailVars, callVars>>

\* client.post raises (timeout=60.0, connection error): the exception leaves
\* generate_article_audio.
OpenaiTtsRaises ==
    /\ pc = "tts:loop"
    /\ tts.in_flight
    /\ pc' = "tts:failed"
    /\ tts' = [tts EXCEPT !.returned = @ + 1, !.in_flight = FALSE,
                          !.error = <<"httpx.HTTPError">>]
    /\ UNCHANGED <<chunkVars, imageVars, sanitizeVars, emailVars, callVars>>

\* After the loop: join, write_bytes, and the upsert into the audio table.
StoreAudio ==
    /\ pc = "tts:loop"
    /\ ~tts.in_flight
    /\ tts.i = Len(tts.chunks)
    /\ pc' = "tts:stored"
    /\ LET mp3_bytes == join(tts.mp3_parts)
       IN tts' = [tts EXCEPT !.stored = TRUE, !.file = mp3_bytes,
                             !.row = AudioRow(mp3_bytes)]
    /\ UNCHANGED <<chunkVars, imageVars, sanitizeVars, emailVars, callVars>>

TtsNext ==
    \/ CheckChunks
    \/ CallOpenaiTts
    \/ OpenaiTtsReturns
    \/ OpenaiTtsRaises
    \/ StoreAudio

SpecTts == TtsInit /\ [][TtsNext]_vars

\* C16: generate_article_audio makes its speech calls one at a time and in
\* chunk order (the requests made so far are the first chunks, in order, and
\* a call is made only when every earlier one has returned); when audio is
\* stored exactly one call was made per chunk and the file is the bodies of
\* the responses joined in that order.  Nothing is stored otherwise.
C16_OneCallPerChunkInOrder ==
    pc \in {"tts:chunked", "tts:loop", "tts:failed", "tts:stored"} =>
        /\ Len(tts.requests) <= Len(tts.chunks)
        /\ tts.requests = SubSeq(tts.chunks, 1, Len(tts.requests))
        /\ Len(tts.requests) - Len(tts.responses) \in {0, 1}
        /\ tts.in_flight => Len(tts.requests) = tts.returned + 1
        /\ tts.stored <=> pc = "tts:stored"
        /\ pc = "tts:stored" =>
              /\ tts.requests = tts.chunks
              /\ Len(tts.responses) = Len(tts.chunks)
              /\ tts.file = Flatten([k \in 1..Len(tts.responses) |->
                                        tts.responses[k].content])
        /\ pc # "tts:stored" => tts.file = <<>>

\* Audio stored for at least two chunks whose responses differ.
C16_Witness ==
    /\ pc = "tts:stored"
    /\ Len(tts.chunks) >= 2
    /\ tts.responses[1].content # tts.responses[2].content
    /\ tts.chunks[1] # tts.chunks[2]

\* ---------------------------------------------------------------------------
\* Extractions under way together: fetch_and_extract coroutines
\* (src/tiro/ingestion/web.py, awaited by the routes) and parse_eml calls
\* (src/tiro/ingestion/email.py, run by asyncio.to_thread).  Every call keeps
\* its values in its own locals; the bodies of the stages are modelled in the
\* sections above, so here a stage is an uninterpreted function: the value it
\* returns is the term naming the stage and its arguments.
\* ---------------------------------------------------------------------------

\* The most extractions under way at once.
MaxCalls == 2

\* The value f(a).
Apply(f, a) == a \o <<f>>

\* The value f(a, b).
Apply2(f, a, b) == a \o <<"+">> \o b \o <<f>>

\* What client.get(url) can do for fetch_and_extract: raise (no connection,
\* timeout=30.0), or return the final response after redirects were followed.
WebInputs ==
    { [kind |-> "web", source |-> "P1", url |-> "u", net |-> n, status |-> 0,
       final_url |-> "u", md_long |-> TRUE] : n \in {"ConnectError", "ReadTimeout"} }
    \cup
    { [kind |-> "web", source |-> "P1", url |-> "u", net |-> "ok", status |-> s,
       final_url |-> "u", md_long |-> TRUE] : s \in {304, 404, 500} }
    \cup
    { [kind |-> "web", source |-> p, url |-> "u", net |-> "ok", status |-> 200,
       final_url |-> f, md_long |-> TRUE] : p \in {"P1", "P2"}, f \in {"u", "v"} }

\* The messages given to parse_eml: with or without a body part, and with
\* Markdown of at least MinContentLen characters or less.
EmlInputs ==
    { [kind |-> "eml", source |-> m, url |-> "", net |-> "ok", status |-> 0,
       final_url |-> "", md_long |-> l] :
         m \in {"M1", "M0"}, l \in BOOLEAN }

\* M0 stands for a message without text/html and text/plain parts.
HasBody(input) == input.source # "M0"

CallInputs == WebInputs \cup {x \in EmlInputs : HasBody(x) \/ x.md_long}

\* The locals of a call that has not started.
NewCall(input) ==
    [input |-> input,
     next |-> IF input.kind = "web" THEN "get" ELSE "headers",
     stages |-> <<>>, fetches |-> 0,
     html |-> <<>>, final_url |-> "", content_images |-> <<>>,
     title |-> <<>>, author |-> <<>>, email_sender |-> <<>>,
     content_html |-> <<>>, content_md |-> <<>>,
     ok |-> FALSE, error |-> ""]

\* The locals after the call raised: whatever it had computed is dropped.
Raised(c, stage, exc) ==
    [c EXCEPT !.next = "raised", !.stages = Append(@, stage), !.error = exc]

\* A call reads the html of a frame shared by all calls.
shared_html(cs, i) == cs[1].html

\* A call reads the html bound in its own frame.
own_html(cs, i) == cs[i].html

\* str(response.url) taken to be the URL that was asked for.
request_url(input) == input.url

\* str(response.url): the URL of the final response.
response_url(input) == input.final_url

\* response.is_success, which raise_for_status tests.
is_success(status) == status \in 200..299

CallsInit ==
    /\ ChunkIdle /\ ImagesIdle /\ SanitizeIdle /\ EmailIdle /\ TtsIdle
    /\ pc = "calls" /\ mail = Nothing
    /\ \E n \in 1..MaxCalls : \E ins \in [1..n -> CallInputs] :
          calls = [i \in 1..n |-> NewCall(ins[i])]

\* The frame shared by every step of a call: call i is at stage `at` and
\* its locals become r.
Step(i, at, r) ==
    /\ pc = "calls"
    /\ i \in 1..Len(calls)
    /\ calls[i].next = at
    /\ calls' = [calls EXCEPT ![i] = r]
    /\ pc' = pc
    /\ UNCHANGED <<chunkVars, imageVars, sanitizeVars, emailVars, ttsVars, mail>>

\* web.py:218, up to the await: the request leaves.
CallGet ==
    \E i \in 1..Len(calls) :
        Step(i, "get", [calls[i] EXCEPT !.next = "awaiting", !.fetches = @ + 1])

\* web.py:218-223: the await resumes.  client.get raises, or
\* raise_for_status raises, or html and final_url are bound.
CallGetReturns ==
    \E i \in 1..Len(calls) :
        LET c == calls[i]
            in == c.input
        IN Step(i, "awaiting",
                IF in.net # "ok" THEN Raised(c, "fetch", in.net)
                ELSE IF ~is_success(in.status)
                     THEN Raised(c, "fetch", "HTTPStatusError")
                ELSE [c EXCEPT !.next = "collect",
                               !.stages = Append(@, "fetch"),
                               !.html = <<in.source>>,
                               !.final_url = response_url(in)])

\* web.py:226
CallCollectImages ==
    \E i \in 1..Len(calls) :
        Step(i, "collect",
             [calls[i] EXCEPT !.next = "readability",
                              !.stages = Append(@, "collect_content_images"),
                              !.content_images = Apply("images", own_html(calls, i))])

\* web.py:228-230 and email.py:192-193: Document(...), title(), summary().
CallReadability ==
    \E i \in 1..Len(calls) :
        LET c == calls[i]
        IN Step(i, "readability",
                IF c.input.kind = "web"
                THEN [c EXCEPT !.next = "reinject",
                               !.stages = Append(@, "readability"),
                               !.title = Apply("title", own_html(calls, i)),
                               !.content_html = Apply("summary", own_html(calls, i))]
                ELSE [c EXCEPT !.next = "layout",
                               !.stages = Append(@, "readability"),
                               !.content_html = Apply("summary", own_html(calls, i))])

\* web.py:233
CallReinjectImages ==
    \E i \in 1..Len(calls) :
        LET c == calls[i]
        IN Step(i, "reinject",
                [c EXCEPT !.next = "author",
                          !.stages = Append(@, "reinject_images"),
                          !.content_html = Apply2("reinject", @, c.content_images)])

\* web.py:236
CallExtractAuthor ==
    \E i \in 1..Len(calls) :
        Step(i, "author",
             [calls[i] EXCEPT !.next = "layout",
                              !.stages = Append(@, "extract_author"),
                              !.author = Apply("author", own_html(calls, i))])

\* web.py:239 and email.py:197
CallStripLayoutTables ==
    \E i \in 1..Len(calls) :
        Step(i, "layout",
             [calls[i] EXCEPT !.next = "markdown",
                              !.stages = Append(@, "strip_layout_tables"),
                              !.content_html = Apply("strip_layout_tables", @)])

\* web.py:242-257 and email.py:200-220: md(...), the collapse of blank lines,
\* then the record; parse_eml raises first when the Markdown is short.
CallMarkdown ==
    \E i \in 1..Len(calls) :
        LET c == calls[i]
            collapsed == Apply("collapse", Apply("md", c.content_html))
        IN Step(i, "markdown",
                IF c.input.kind = "eml" /\ ~c.input.md_long
                THEN Raised(c, "markdown", "ValueError")
                ELSE [c EXCEPT !.next = "returned",
                               !.stages = Append(@, "markdown"),
                               !.content_md = collapsed,
                               !.ok = TRUE])

\* email.py:157-180: the message and its From, Subject and Date.
CallParseHeaders ==
    \E i \in 1..Len(calls) :
        LET c == calls[i]
        IN Step(i, "headers",
                [c EXCEPT !.next = "body",
                          !.stages = Append(@, "headers"),
                          !.title = Apply("Subject", <<c.input.source>>),
                          !.author = Apply("From", <<c.input.source>>),
                          !.email_sender = Apply("addr", <<c.input.source>>)])

\* email.py:183-185
CallExtractBody ==
    \E i \in 1..Len(calls) :
        LET c == calls[i]
        IN Step(i, "body",
                IF ~HasBody(c.input)
                THEN Raised(c, "extract_html_body", "ValueError")
                ELSE [c EXCEPT !.next = "pixels",
                               !.stages = Append(@, "extract_html_body"),
                               !.html = Apply("body", <<c.input.source>>)])

\* email.py:188
CallStripTrackingPixels ==
    \E i \in 1..Len(calls) :
        Step(i, "pixels",
             [calls[i] EXCEPT !.next = "utm",
                              !.stages = Append(@, "strip_tracking_pixels"),
                              !.html = Apply("strip_tracking_pixels", own_html(calls, i))])

\* email.py:189
CallStripUtmParams ==
    \E i \in 1..Len(calls) :
        Step(i, "utm",
             [calls[i] EXCEPT !.next = "readability",
                              !.stages = Append(@, "strip_utm_params"),
                              !.html = Apply("strip_utm_params", own_html(calls, i))])

CallsNext ==
    \/ CallGet
    \/ CallGetReturns
    \/ CallCollectImages
    \/ CallReadability
    \/ CallReinjectImages
    \/ CallExtractAuthor
    \/ CallStripLayoutTables
    \/ CallMarkdown
    \/ CallParseHeaders
    \/ CallExtractBody
    \/ CallStripTrackingPixels
    \/ CallStripUtmParams

SpecCalls == CallsInit /\ [][CallsNext]_vars

\* What the caller of a call gets: the record, or only the exception.
Failure(exc) ==
    [ok |-> FALSE, error |-> exc, title |-> <<>>, author |-> <<>>,
     content_md |-> <<>>, url |-> "", email_sender |-> <<>>]

Outcome(c) ==
    IF c.next = "raised" THEN Failure(c.error)
    ELSE [ok |-> c.ok, error |-> c.error, title |-> c.title, author |-> c.author,
          content_md |-> c.content_md, url |-> c.final_url,
          email_sender |-> c.email_sender]

Finished(c) == c.next \in {"returned", "raised"}

\* fetch_and_extract(url) run with nothing else under way.
AloneWeb(input) ==
    IF input.net # "ok" THEN Failure(input.net)
    ELSE IF input.status \notin 200..299 THEN Failure("HTTPStatusError")
    ELSE LET page == <<input.source>>
             summary == Apply2("reinject", Apply("summary", page), Apply("images", page))
         IN [ok |-> TRUE, error |-> "",
             title |-> Apply("title", page), author |-> Apply("author", page),
             content_md |-> Apply("collapse", Apply("md", Apply("strip_layout_tables", summary))),
             url |-> input.final_url, email_sender |-> <<>>]

\* parse_eml(source) run with nothing else under way.
AloneEml(input) ==
    IF ~HasBody(input) \/ ~input.md_long THEN Failure("ValueError")
    ELSE LET m == <<input.source>>
             body == Apply("strip_utm_params", Apply("strip_tracking_pixels", Apply("body", m)))
         IN [ok |-> TRUE, error |-> "",
             title |-> Apply("Subject", m), author |-> Apply("From", m),
             content_md |-> Apply("collapse", Apply("md", Apply("strip_layout_tables", Apply("summary", body)))),
             url |-> "", email_sender |-> Apply("addr", m)]

Alone(input) == IF input.kind = "web" THEN AloneWeb(input) ELSE AloneEml(input)

\* C15: however the steps of the calls under way interleave, a call that has
\* finished gave its caller what it gives when run alone on its input, a
\* record or a failure, whatever the other calls did or raised.
C15_ResultAsWhenRunAlone ==
    pc = "calls" =>
        \A i \in 1..Len(calls) :
            Finished(calls[i]) => Outcome(calls[i]) = Alone(calls[i].input)

\* Every call has finished: a parse_eml call that raised beside a
\* fetch_and_extract call that returned its record.
C15_Witness ==
    /\ pc = "calls"
    /\ Len(calls) >= 2
    /\ \A i \in 1..Len(calls) : Finished(calls[i])
    /\ calls[1].next = "raised"
    /\ calls[2].next = "returned"
    /\ calls[2].input.kind = "web"
    /\ calls[1].input.kind = "eml"

WebCalls == {i \in 1..Len(calls) : calls[i].input.kind = "web"}

FetchFails(input) == input.net # "ok" \/ input.status \notin 200..299

\* C17: fetch_and_extract asks for the URL once and never again; when the
\* fetch fails (no connection, timeout, final status outside 2xx) the call
\* raises without a record and without having run any extraction stage; a
\* record it returns carries the URL of the final response.
C17_OneFetchNoRetry ==
    pc = "calls" =>
        \A i \in WebCalls :
            LET c == calls[i]
            IN /\ c.fetches <= 1
               /\ c.next # "get" => c.fetches = 1
               /\ (Finished(c) /\ FetchFails(c.input)) =>
                     /\ c.next = "raised"
                     /\ ~Outcome(c).ok
                     /\ Outcome(c).error \in {"ConnectError", "ReadTimeout", "HTTPStatusError"}
                     /\ c.stages = <<"fetch">>
               /\ c.next = "returned" =>
                     /\ ~FetchFails(c.input)
                     /\ Outcome(c).url = c.input.final_url

\* A fetch that was redirected ended in a record, and a fetch that failed
\* ended the call.
C17_Witness ==
    /\ pc = "calls"
    /\ \E i \in WebCalls :
          /\ calls[i].next = "returned"
          /\ calls[i].input.final_url # calls[i].input.url
    /\ \E i \in WebCalls :
          /\ calls[i].next = "raised"
          /\ FetchFails(calls[i].input)

\* The place of a stage in the stages a call ran, 0 when it did not run.
StageIx(c, stage) ==
    IF \E k \in 1..Len(c.stages) : c.stages[k] = stage
    THEN CHOOSE k \in 1..Len(c.stages) : c.stages[k] = stage
    ELSE 0

\* Stage a ran, and before stage b.
RanBefore(c, a, b) ==
    /\ StageIx(c, a) # 0
    /\ StageIx(c, b) # 0
    /\ StageIx(c, a) < StageIx(c, b)

SanitizerStages == {"strip_tracking_pixels", "strip_utm_params", "strip_layout_tables"}

ImageStages == {"collect_content_images", "reinject_images"}

\* C18: in a call that returned a record the three Sanitizer passes ran
\* before Readability (and, for a URL, before image recovery), Readability
\* and image recovery ran before the Markdown conversion, and a parse_eml
\* call ran no image stage.
C18_StagesInStatedOrder ==
    pc = "calls" =>
        \A i \in 1..Len(calls) :
            LET c == calls[i]
            IN c.next = "returned" =>
                  /\ \A s \in SanitizerStages : RanBefore(c, s, "readability")
                  /\ RanBefore(c, "readability", "markdown")
                  /\ c.input.kind = "web" =>
                        /\ \A s \in SanitizerStages, g \in ImageStages : RanBefore(c, s, g)
                        /\ \A g \in ImageStages : RanBefore(c, g, "markdown")
                  /\ c.input.kind = "eml" =>
                        \A g \in ImageStages : StageIx(c, g) = 0

\* The part of an address before its first "@".
LocalPart(addr) == SplitOn(addr, "@")[1]

\* C19: no header ends parse_eml (a From without display name, a missing or
\* blank Subject, a missing or unparseable Date): the call goes on to the
\* body, and a record it returns has the address's local-part as author when
\* From has no display name, "Untitled Email" as title when Subject is
\* missing or blank, a null published_at when Date is missing or cannot be
\* parsed, and never an empty title.
C19_HeaderExtractionNeverFatal ==
    /\ pc \in {"eml:crashed", "eml:failed"} => error \in {NoContent, TooShort}
    /\ pc = "eml:returned" =>
          LET h == msg.headers
          IN /\ record.title # <<>>
             /\ (h.from.name = <<>> /\ h.from.email # <<>>) =>
                   record.author = LocalPart(h.from.email)
             /\ (h.subject = Absent \/ NonWs(h.subject) = <<>>) =>
                   record.title = UntitledEmail
             /\ h.date # DateOk => record.published_at = None

\* The direct children of the content container of a page, in order.
ContainerKids(t) == SortedSeq(ChildIxs(t, CollectContainer(t)))

\* Lines 56-64: the child is taken as an image container.
IsImageContainer(t, c) ==
    \/ t[c].tag = "figure"
    \/ t[c].tag = "div" /\ Contains(ImageContainerClass, Get(t[c], "class", <<>>))
    \/ FindDesc(t, c, "figure") # 0

\* The element searched for the img of an image container.
ImageHolder(t, c) ==
    IF \/ t[c].tag = "figure"
       \/ t[c].tag = "div" /\ Contains(ImageContainerClass, Get(t[c], "class", <<>>))
    THEN c ELSE FindDesc(t, c, "figure")

\* The image containers that give a record (an img with a src), in order:
\* the k-th of them gave the k-th collected image.
RecordedKids(t) ==
    SelectSeq(ContainerKids(t),
              LAMBDA c : /\ IsImageContainer(t, c)
                         /\ FindDesc(t, ImageHolder(t, c), "img") # 0
                         /\ Get(t[FindDesc(t, ImageHolder(t, c), "img")], "src", <<>>) # <<>>)

\* The place of child c among the children of the container.
KidIx(t, c) == CHOOSE k \in 1..Len(ContainerKids(t)) : ContainerKids(t)[k] = c

\* C21: an image container that directly follows another image container is
\* recorded with an empty anchor (the preceding-text tracker was reset after
\* the earlier container).
C21_AnchorResetAfterContainer ==
    pc = "collected" =>
        /\ Len(images) = Len(RecordedKids(html))
        /\ \A k \in 1..Len(images) :
              LET c == RecordedKids(html)[k]
                  at == KidIx(html, c)
              IN (at > 1 /\ IsImageContainer(html, ContainerKids(html)[at - 1])) =>
                    images[k].anchor = <<>>

\* The children before child c that have text, whatever they are.
TextKidsBefore(t, c) ==
    {k \in 1..(KidIx(t, c) - 1) : Strip(text_content(t, ContainerKids(t)[k])) # <<>>}

MaxAnchorBlocks == 3

\* A paragraph of AnchorLen + 1 characters between spaces.
LongParagraph == <<" ", "y">> \o [i \in 1..AnchorLen |-> "x"] \o <<" ">>

\* The children: a long and a short paragraph, a paragraph without text, a
\* figure, a figure with a caption, and a div that wraps text and a figure.
AnchorBlocks ==
    { << El("p", 0, LongParagraph, <<>>, NoAttrs) >>,
      << El("p", 0, <<"a">>, <<>>, NoAttrs) >>,
      << El("p", 0, <<" ">>, <<>>, NoAttrs) >>,
      << El("figure", 0, <<>>, <<>>, NoAttrs),
         El("img", 1, <<>>, <<>>, [NoAttrs EXCEPT !["src"] = Src1]) >>,
      << El("figure", 0, <<>>, <<>>, NoAttrs),
         El("img", 1, <<>>, <<>>, [NoAttrs EXCEPT !["src"] = Src2]),
         El("figcaption", 1, <<"c">>, <<>>, NoAttrs) >>,
      << El("div", 0, <<>>, <<>>, NoAttrs),
         El("p", 1, <<"b">>, <<>>, NoAttrs),
         El("figure", 1, <<>>, <<>>, NoAttrs),
         El("img", 2, <<>>, <<>>, [NoAttrs EXCEPT !["src"] = Src2]) >> }

\* The pages of at most n such children of <body>.
AnchorPages(n) ==
    { WithIds(HtmlBody(Flatten(bs))) : bs \in SeqsUpTo(AnchorBlocks, n) }

\* Line 220: the page has been fetched.
AnchorsInit ==
    /\ pc = "fetched"
    /\ html \in AnchorPages(MaxAnchorBlocks)
    /\ images = Nothing /\ content_html = Nothing /\ reinjected = Nothing
    /\ ChunkIdle /\ SanitizeIdle /\ EmailIdle /\ CallsIdle /\ TtsIdle

AnchorsNext == Collect

SpecAnchors == AnchorsInit /\ [][AnchorsNext]_vars

\* The children before child c that have text and are no image containers.
PlainTextKidsBefore(t, c) ==
    {k \in TextKidsBefore(t, c) : ~IsImageContainer(t, ContainerKids(t)[k])}

\* The last n characters of s, all of s when it has fewer.
Trailing(s, n) == SubSeq(s, Max({1, Len(s) - n + 1}), Len(s))

C27_ReinjectedInCollectedOrder ==
    pc = "reinjected" =>
        \A m, n \in 1..Len(reinjected.steps) :
            m < n => PosOf(reinjected.tree, reinjected.steps[m].wrapper)
                        < PosOf(reinjected.tree, reinjected.steps[n].wrapper)

\* The text of a document with the tail of every element in place: what is
\* left of the text when elements go and all text stays.
AllText(t) == text_content(t, 1)

\* C28: tracking-pixel removal takes out img elements that meet the pixel
\* criteria and nothing else: every other element is in the result, in the
\* original order and unchanged, and so is all text, the text right after a
\* removed img included.
C28_OnlyPixelImgsRemoved ==
    pc = "san:pixels" =>
        LET gone == {i \in 1..Len(san_before) : PosOf(san_tree, san_before[i].id) = 0}
            kept == SelectSeq(san_before, LAMBDA n : PosOf(san_tree, n.id) # 0)
        IN /\ \A i \in gone : san_before[i].tag = "img" /\ is_pixel(san_before[i])
           /\ [i \in 1..Len(san_tree) |-> san_tree[i].id] = [i \in 1..Len(kept) |-> kept[i].id]
           /\ \A i \in 1..Len(san_tree) :
                 /\ san_tree[i].tag = kept[i].tag
                 /\ san_tree[i].at = kept[i].at
                 /\ san_tree[i].depth = kept[i].depth
           /\ AllText(san_tree) = AllText(san_before)

\* The last character of s that is not whitespace.
LastNonWs(s) == NonWs(s)[Len(NonWs(s))]

\* C29: chunk_text returns no empty and no whitespace-only chunk (a chunk
\* has no whitespace at its ends), what is left in the buffer is flushed at
\* the end (the text's last visible character ends the last chunk), and the
\* result is the empty list exactly when the text has no visible character.
C29_NoEmptyChunkAndFinalFlush ==
    pc = "returned" =>
        /\ \A i \in 1..Len(chunks) :
              /\ chunks[i] # <<>>
              /\ ~IsWs(chunks[i][1])
              /\ ~IsWs(chunks[i][Len(chunks[i])])
        /\ chunks = <<>> <=> NonWs(text) = <<>>
        /\ NonWs(text) # <<>> =>
              /\ chunks # <<>>
              /\ chunks[Len(chunks)][Len(chunks[Len(chunks)])] = LastNonWs(text)
              /\ Len(NonWs(Flatten(chunks))) = Len(NonWs(text))

\* Several chunks were returned, the last of them from the buffer left after
\* the loop over a text that has whitespace at its end.
C29_Witness ==
    /\ pc = "returned"
    /\ Len(chunks) >= 2
    /\ IsWs(text[Len(text)])
    /\ IsWs(text[1])

\* ---------------------------------------------------------------------------
\* POST /api/articles/{id}/audio/generate (src/tiro/api/routes_audio.py) for
\* one article: every request runs generate_article_audio in a thread of its
\* own (asyncio.to_thread), all on one file and one row of the audio table.
\* ---------------------------------------------------------------------------

\* The most generate requests for the article that are under way together.
MaxGenerations == 2

\* chunk_text(speech_text) of the article.
ArticleChunks == {<<>>, << <<"a">> >>, << <<"a">>, <<"b", ".">> >>}

NoFile == [exists |-> FALSE, complete |-> FALSE, bytes |-> <<>>]

NoRow == [exists |-> FALSE, file_size_bytes |-> 0]

\* A request that has not reached the route yet.
NewRequest ==
    [at |-> "start", mp3_parts |-> <<>>, tts_failed |-> FALSE,
     wrote |-> FALSE, upserted |-> FALSE]

\* get_audio_status (tts.py:283-326): cached when the key is set, the row
\* exists and the file exists on disk.
get_audio_status(a) ==
    [cached |-> a.api_key /\ a.row.exists /\ a.file.exists,
     fallback |-> ~a.api_key]

AudioInit ==
    /\ ChunkIdle /\ ImagesIdle /\ SanitizeIdle /\ EmailIdle /\ CallsIdle
    /\ pc = "audio"
    /\ \E cs \in ArticleChunks, key \in BOOLEAN, n \in 1..MaxGenerations :
          tts = [chunks |-> cs, api_key |-> key, file |-> NoFile, row |-> NoRow,
                 reqs |-> [i \in 1..n |-> NewRequest],
                 replies |-> 0, served_partial |-> FALSE]

\* Request i is at `from` and goes on to `to` with the state of the article
\* as given.
AudioStep(i, from, a) ==
    /\ pc = "audio"
    /\ i \in 1..Len(tts.reqs)
    /\ tts.reqs[i].at = from
    /\ tts' = a
    /\ pc' = pc
    /\ UNCHANGED <<chunkVars, imageVars, sanitizeVars, emailVars, callVars>>

\* routes_audio.py:27-41 and tts.py:206-208: no key is a 400, cached audio
\* is served, an article without chunks is a ValueError; else the loop
\* starts.
AudioGenerate ==
    \E i \in 1..Len(tts.reqs) :
        AudioStep(i, "start",
            [tts EXCEPT !.reqs[i].at =
                IF ~tts.api_key THEN "rejected"
                ELSE IF get_audio_status(tts).cached THEN "served"
                ELSE IF tts.chunks = <<>> THEN "raised"
                ELSE "loop"])

\* tts.py:218-221: one pass of the loop; a call that fails raises out of
\* generate_article_audio.
AudioTtsCall ==
    \E i \in 1..Len(tts.reqs) :
        \E status \in TtsStatuses, content \in Mp3Bodies :
            /\ Len(tts.reqs[i].mp3_parts) < Len(tts.chunks)
            /\ AudioStep(i, "loop",
                  IF status # 200
                  THEN [tts EXCEPT !.reqs[i].at = "raised",
                                   !.reqs[i].tts_failed = TRUE]
                  ELSE [tts EXCEPT !.reqs[i].mp3_parts = Append(@, content)])

\* tts.py:230, write_bytes opens the file for writing: it exists and is
\* empty.
AudioOpenFile ==
    \E i \in 1..Len(tts.reqs) :
        /\ Len(tts.reqs[i].mp3_parts) = Len(tts.chunks)
        /\ AudioStep(i, "loop",
              [tts EXCEPT !.reqs[i].at = "writing",
                          !.reqs[i].wrote = TRUE,
                          !.file = [exists |-> TRUE, complete |-> FALSE,
                                    bytes |-> <<>>]])

\* tts.py:230, write_bytes has written the joined parts and closed the file.
AudioWriteFile ==
    \E i \in 1..Len(tts.reqs) :
        AudioStep(i, "writing",
            [tts EXCEPT !.reqs[i].at = "written",
                        !.file = [exists |-> TRUE, complete |-> TRUE,
                                  bytes |-> join(tts.reqs[i].mp3_parts)]])

\* tts.py:238-263: the upsert of the row of the audio table.
AudioUpsert ==
    \E i \in 1..Len(tts.reqs) :
        AudioStep(i, "written",
            [tts EXCEPT !.reqs[i].at = "done",
                        !.reqs[i].upserted = TRUE,
                        !.row = [exists |-> TRUE,
                                 file_size_bytes |-> Len(join(tts.reqs[i].mp3_parts))]])

\* GET /api/articles/{id}/audio/status (routes_audio.py:16-21) answers from
\* the row and the file as they are now.
AudioStatus ==
    /\ pc = "audio"
    /\ tts.replies < 1
    /\ tts' = [tts EXCEPT !.replies = @ + 1,
                          !.served_partial = get_audio_status(tts).cached
                                                /\ ~tts.file.complete]
    /\ pc' = pc
    /\ UNCHANGED <<chunkVars, imageVars, sanitizeVars, emailVars, callVars>>

AudioNext ==
    \/ AudioGenerate
    \/ AudioTtsCall
    \/ AudioOpenFile
    \/ AudioWriteFile
    \/ AudioUpsert
    \/ AudioStatus

SpecAudio == AudioInit /\ [][AudioNext]_vars

\* C26: a request whose TTS call failed for some chunk raised without
\* writing the file and without touching the audio table; the row of the
\* article exists only once some request made every chunk call and wrote
\* the whole file; get_audio_status says cached only while the file on disk
\* is completely written.
C26_AudioAllOrNothing ==
    pc = "audio" =>
        /\ \A i \in 1..Len(tts.reqs) :
              tts.reqs[i].tts_failed =>
                  /\ tts.reqs[i].at = "raised"
                  /\ ~tts.reqs[i].wrote
                  /\ ~tts.reqs[i].upserted
        /\ tts.row.exists =>
              \E i \in 1..Len(tts.reqs) :
                  /\ tts.reqs[i].at = "done"
                  /\ Len(tts.reqs[i].mp3_parts) = Len(tts.chunks)
        /\ get_audio_status(tts).cached => tts.file.complete
        /\ ~tts.served_partial

(***************************************************************************)
(* tts.py: _strip_markdown_for_speech, the text handed to the speech model  *)
(***************************************************************************)

\* pat occurs in s at index i.
At(s, i, pat) ==
    /\ i >= 1 /\ i + Len(pat) - 1 <= Len(s)
    /\ SubSeq(s, i, i + Len(pat) - 1) = pat

\* The first index at or after from where pat occurs in s; 0 when there is none.
FindFrom(s, pat, from) ==
    LET hits == {j \in from..Len(s) : At(s, j, pat)}
    IN IF hits = {} THEN 0 ELSE Min(hits)

\* ^ under re.MULTILINE: the start of the text or just after a newline.
LineStart(s, i) == i = 1 \/ s[i - 1] = "\n"

\* The last index of the longest run of characters of C that starts at i
\* (i - 1 when s[i] is not in C): a greedy character class.
RunEnd(s, i, C) ==
    LET stops == {j \in i..Len(s) : s[j] \notin C}
    IN IF stops = {} THEN Len(s) ELSE Min(stops) - 1

WsChars == {" ", "\n", "\t"}

DigitChars == {"0", "1", "2", "3", "4", "5", "6", "7", "8", "9"}

NoMatch == [end |-> 0, repl |-> <<>>]

RECURSIVE SubLoop(_, _, _)
\* re.sub over s from index i: m[i] is the match that starts at i (its last
\* index and its replacement) or NoMatch. The scan goes left to right, takes
\* the match at the first index that has one and goes on after its end.
SubLoop(s, i, m) ==
    IF i > Len(s) THEN <<>>
    ELSE IF m[i].end > 0 THEN m[i].repl \o SubLoop(s, m[i].end + 1, m)
    ELSE <<s[i]>> \o SubLoop(s, i + 1, m)

re_sub(s, m) == SubLoop(s, 1, m)

\* The backquote, written as a character the parser accepts in a string.
Bq == "~"

Fence == <<Bq, Bq, Bq>>

\* Line 72: a fence, anything (the shortest), a fence -> ''
FencedAt(s, i) ==
    LET j == FindFrom(s, Fence, i + 3)
    IN IF At(s, i, Fence) /\ j > 0 THEN [end |-> j + 2, repl |-> <<>>]
       ELSE NoMatch

\* Line 75: a backquote, ([^backquote]*), a backquote -> group 1
InlineCodeAt(s, i) ==
    LET j == FindFrom(s, <<Bq>>, i + 1)
    IN IF At(s, i, <<Bq>>) /\ j > 0
       THEN [end |-> j, repl |-> SubSeq(s, i + 1, j - 1)]
       ELSE NoMatch

\* Line 81: r'\[([^\]]*)\]\([^)]*\)' -> group 1. The text runs to the first
\* "]" and the target to the first ")" after the "(".
LinkAt(s, i) ==
    LET j == FindFrom(s, <<"]">>, i + 1)
        k == IF j > 0 THEN FindFrom(s, <<")">>, j + 2) ELSE 0
    IN IF At(s, i, <<"[">>) /\ j > 0 /\ At(s, j + 1, <<"(">>) /\ k > 0
       THEN [end |-> k, repl |-> SubSeq(s, i + 1, j - 1)]
       ELSE NoMatch

\* Line 78: r'!\[([^\]]*)\]\([^)]*\)' -> group 1
ImageAt(s, i) == IF At(s, i, <<"!">>) THEN LinkAt(s, i + 1) ELSE NoMatch

\* Line 84: r'^#{1,6}\s+' -> ''
HeadingAt(s, i) ==
    LET h == RunEnd(s, i, {"#"})
        w == RunEnd(s, h + 1, WsChars)
    IN IF LineStart(s, i) /\ h >= i /\ h - i + 1 <= 6 /\ w > h
       THEN [end |-> w, repl |-> <<>>]
       ELSE NoMatch

\* Lines 87-92: X(.+?)X -> group 1, for a delimiter X: the shortest text of
\* one character or more, on one line, up to the next X.
EmphasisAt(s, i, X) ==
    LET n == Len(X)
        closes == {j \in (i + n + 1)..Len(s) :
                      /\ At(s, j, X)
                      /\ \A q \in (i + n)..(j - 1) : s[q] # "\n"}
    IN IF At(s, i, X) /\ closes # {}
       THEN [end |-> Min(closes) + n - 1,
             repl |-> SubSeq(s, i + n, Min(closes) - 1)]
       ELSE NoMatch

\* Line 95: r'^[\-\*_]{3,}\s*$' -> '': a rule, the whitespace after it, up
\* to the end of the text or to the last newline of that whitespace.
RuleAt(s, i) ==
    LET r == RunEnd(s, i, {"-", "*", "_"})
        w == RunEnd(s, r + 1, WsChars)
        nls == {j \in (r + 1)..w : s[j] = "\n"}
    IN IF ~(LineStart(s, i) /\ r - i + 1 >= 3) THEN NoMatch
       ELSE IF w = Len(s) THEN [end |-> w, repl |-> <<>>]
       ELSE IF nls # {} THEN [end |-> Max(nls) - 1, repl |-> <<>>]
       ELSE NoMatch

\* Line 98: r'^>\s?' -> ''
QuoteAt(s, i) ==
    IF LineStart(s, i) /\ At(s, i, <<">">>)
    THEN [end |-> IF i < Len(s) /\ IsWs(s[i + 1]) THEN i + 1 ELSE i,
          repl |-> <<>>]
    ELSE NoMatch

\* Line 101: r'<[^>]+>' -> ''
TagAt(s, i) ==
    LET j == FindFrom(s, <<">">>, i + 1)
    IN IF At(s, i, <<"<">>) /\ j > i + 1 THEN [end |-> j, repl |-> <<>>]
       ELSE NoMatch

\* Line 104: r'^\s*[\-\*\+]\s+' -> ''
BulletAt(s, i) ==
    LET w == RunEnd(s, i, WsChars)
        e == RunEnd(s, w + 2, WsChars)
    IN IF /\ LineStart(s, i) /\ w + 1 <= Len(s)
          /\ s[w + 1] \in {"-", "*", "+"} /\ e > w + 1
       THEN [end |-> e, repl |-> <<>>]
       ELSE NoMatch

\* Line 105: r'^\s*\d+\.\s+' -> ''
NumberAt(s, i) ==
    LET w == RunEnd(s, i, WsChars)
        d == RunEnd(s, w + 1, DigitChars)
        e == RunEnd(s, d + 2, WsChars)
    IN IF /\ LineStart(s, i) /\ d > w /\ At(s, d + 1, <<".">>) /\ e > d + 1
       THEN [end |-> e, repl |-> <<>>]
       ELSE NoMatch

\* One pass of re.sub with the pattern whose match at an index is M(s, i).
Pass(s, M(_, _)) == re_sub(s, [i \in 1..Len(s) |-> M(s, i)])

EmphasisPass(s, X) == re_sub(s, [i \in 1..Len(s) |-> EmphasisAt(s, i, X)])

\* Lines 64-113, the passes in the order of the source.
_strip_markdown_for_speech(text0) ==
    LET t1  == Pass(text0, FencedAt)
        t2  == Pass(t1, InlineCodeAt)
        t3  == Pass(t2, ImageAt)
        t4  == Pass(t3, LinkAt)
        t5  == Pass(t4, HeadingAt)
        t6  == EmphasisPass(t5, <<"*", "*", "*">>)
        t7  == EmphasisPass(t6, <<"*", "*">>)
        t8  == EmphasisPass(t7, <<"*">>)
        t9  == EmphasisPass(t8, <<"_", "_", "_">>)
        t10 == EmphasisPass(t9, <<"_", "_">>)
        t11 == EmphasisPass(t10, <<"_">>)
        t12 == Pass(t11, RuleAt)
        t13 == Pass(t12, QuoteAt)
        t14 == Pass(t13, TagAt)
        t15 == Pass(t14, BulletAt)
        t16 == Pass(t15, NumberAt)
    IN Strip(Collapse(t16))

(***************************************************************************)
(* SpecSpeech: generate_article_audio prepares the text of an article       *)
(***************************************************************************)

MaxPieces == 3

ImagePiece == <<"!", "[", "b", "]", "(", "u", ")">>

LinkPiece == <<"[", "c", "]", "(", "u", ")">>

\* A link whose target holds a pair of parentheses, as the address of many
\* encyclopedia pages does.
ParenLinkPiece == <<"[", "c", "]", "(", "u", "(", "v", ")", ")">>

\* An image that is itself the text of a link.
LinkedImagePiece == <<"[", "!", "[", "b", "]", "(", "u", ")", "]", "(", "v", ")">>

PlainPieces == {<<"a">>, <<"\n">>, <<" ">>, <<"#", " ">>, <<"*">>}

MdPieces ==
    PlainPieces \cup {ImagePiece, LinkPiece, ParenLinkPiece, LinkedImagePiece}

Titles == {<<>>, <<"T">>}

SpeechInit ==
    /\ ChunkIdle /\ ImagesIdle /\ SanitizeIdle /\ EmailIdle /\ CallsIdle
    /\ pc = "speech:article"
    /\ \E title \in Titles, ps \in SeqsUpTo(MdPieces, MaxPieces) :
          tts = [title |-> title, pieces |-> ps, content |-> Flatten(ps),
                 full_text |-> Nothing, speech_text |-> Nothing]

\* tts.py:201-202
PrepareSpeechText ==
    /\ pc = "speech:article"
    /\ LET full_text == tts.title \o <<"\n", "\n">> \o tts.content
       IN tts' = [tts EXCEPT !.full_text = full_text,
                             !.speech_text = _strip_markdown_for_speech(full_text)]
    /\ pc' = "speech:stripped"
    /\ UNCHANGED <<chunkVars, imageVars, sanitizeVars, emailVars, callVars>>

SpeechNext == PrepareSpeechText

SpecSpeech == SpeechInit /\ [][SpeechNext]_vars

\* What the piece is to leave in the speech text: the alternative text of
\* an image, the text of a link, a plain word itself.
Contribution(p) ==
    IF p \in {ImagePiece, LinkedImagePiece} THEN <<"b">>
    ELSE IF p \in {LinkPiece, ParenLinkPiece} THEN <<"c">>
    ELSE IF p = <<"a">> THEN <<"a">>
    ELSE <<>>

Letters(s) == SelectSeq(s, LAMBDA ch : ch \in {"T", "a", "b", "c"})

ConstructChars == {"[", "]", "(", ")", "!", "u", "v"}

NoNewlineRun(s) == ~Contains(<<"\n", "\n", "\n">>, s)

\* C30: for every Markdown text, an image leaves only its alternative text
\* and a link only its text in the prepared speech text (no address, bracket,
\* parenthesis or leading "!" of the construct is left), and the prepared text
\* holds no run of three or more newlines.
C30_OnlyAltAndLinkTextRemain ==
    pc = "speech:stripped" =>
        /\ \A i \in 1..Len(tts.speech_text) :
              tts.speech_text[i] \notin ConstructChars
        /\ Letters(tts.speech_text)
              = tts.title \o Flatten([i \in 1..Len(tts.pieces) |->
                                         Contribution(tts.pieces[i])])
        /\ NoNewlineRun(tts.speech_text)

(***************************************************************************)
(* SpecMail: check_imap_inbox and ingest_batch_email over one library       *)
(***************************************************************************)

\* The messages of the mailbox and the files of the directory, together.
MaxDocuments == 2

\* The title and sender of a message, which the duplicate check compares.
Keys == {"k1", "k2"}

FetchOutcomes == {"ok", "not_ok", "raises"}

\* What parse_eml does with the bytes of a message: it returns, raises
\* ValueError, or raises another exception. The same bytes give the same.
ParseOutcomes == {"ok", "ValueError", "raises"}

DupCheckOutcomes == {"ok", "raises"}

\* process_article returns, raises before the article row is committed
\* (processor.py:134-161), or raises after it (the steps from line 169 on).
StoreOutcomes == {"ok", "fails_before_commit", "fails_after_commit"}

\* imap.store returns OK, returns NO (no exception), or raises.
FlagOutcomes == {"ok", "no", "raises"}

\* The outcomes of the calls made for one message. A call that is not reached
\* because an earlier one failed has no outcome of its own: "ok" stands in.
Outcomes ==
    {o \in [fetch : FetchOutcomes, dup : DupCheckOutcomes,
             store : StoreOutcomes, flag : FlagOutcomes] :
        /\ o.fetch # "ok" => o.dup = "ok"
        /\ (o.fetch # "ok" \/ o.dup # "ok")
              => (o.store = "ok" /\ o.flag = "ok")}

\* imap.py:26-33
NewResult ==
    [fetched |-> 0, processed |-> 0, skipped |-> 0, failed |-> 0,
     articles |-> <<>>, errors |-> <<>>]

\* routes_ingest.py:181
NewResults == [processed |-> <<>>, skipped |-> <<>>, failed |-> <<>>]

MailInit ==
    /\ ChunkIdle /\ ImagesIdle /\ SanitizeIdle /\ EmailIdle /\ TtsIdle
    /\ calls = Nothing
    /\ pc = "mail"
    /\ \E n \in 0..MaxDocuments : \E f \in 0..(MaxDocuments - n) :
       \E ks \in [1..n -> Keys], ps \in [1..n -> ParseOutcomes],
          fs \in [1..f -> Keys] :
          mail = [msgs |-> [m \in 1..n |-> [key |-> ks[m], parse |-> ps[m],
                                            seen |-> FALSE]],
                  db |-> [k \in Keys |-> "none"],
                  at |-> "idle", id_list |-> <<>>, i |-> 1,
                  result |-> NewResult,
                  logins |-> 0, closes |-> 0, logouts |-> 0,
                  attempts |-> [m \in 1..n |-> 0],
                  last |-> [m \in 1..n |-> "none"],
                  store_failed |-> [m \in 1..n |-> FALSE],
                  ingested |-> [m \in 1..n |-> 0],
                  files |-> fs, f |-> 1, batch_at |-> "idle",
                  results |-> NewResults,
                  file_attempts |-> [x \in 1..f |-> 0],
                  response |-> Nothing]

\* imap.py:76-77, 107-108 and 143-144
Fail(res, e) ==
    [res EXCEPT !.failed = @ + 1, !.errors = Append(@, e)]

\* imap.store(msg_id, op, "\\Seen"), lines 127, 146 and 152: the flag the
\* message has afterwards.
store_flag(seen, op, outcome) ==
    IF outcome = "ok" THEN op = "+FLAGS" ELSE seen

\* imap.py:89-153 for the message given, with the outcomes o of the calls it
\* makes: the result dict, the flag of the message and the library
\* afterwards, whether an exception left the function, and what was done
\* with the message.
_process_imap_message(res, message, db, o) ==
    LET key == message.key IN
    IF o.fetch # "ok"
    THEN [result |-> res, seen |-> message.seen, db |-> db, raised |-> TRUE,
          did |-> "fetch_failed", ingested |-> FALSE]
    \* A fetch of RFC822 in a mailbox selected for writing sets \Seen.
    ELSE IF message.parse = "ValueError"
    THEN [result |-> Fail(res, "error"), seen |-> TRUE, db |-> db,
          raised |-> FALSE, did |-> "parse_failed", ingested |-> FALSE]
    ELSE IF message.parse = "raises" \/ o.dup = "raises"
    THEN [result |-> res, seen |-> TRUE, db |-> db, raised |-> TRUE,
          did |-> "error", ingested |-> FALSE]
    ELSE IF db[key] # "none"
    THEN [result |-> [res EXCEPT !.skipped = @ + 1],
          seen |-> store_flag(TRUE, "+FLAGS", o.flag), db |-> db,
          raised |-> o.flag = "raises", did |-> "skipped",
          ingested |-> FALSE]
    ELSE IF o.store # "ok"
    THEN [result |-> Fail(res, "error"),
          seen |-> store_flag(TRUE, "-FLAGS", o.flag),
          db |-> IF o.store = "fails_after_commit"
                 THEN [db EXCEPT ![key] = "partial"] ELSE db,
          raised |-> o.flag = "raises", did |-> "store_failed",
          ingested |-> FALSE]
    ELSE [result |-> [res EXCEPT !.processed = @ + 1,
                                 !.articles = Append(@, key)],
          seen |-> store_flag(TRUE, "+FLAGS", o.flag),
          db |-> [db EXCEPT ![key] = "complete"],
          raised |-> o.flag = "raises", did |-> "processed",
          ingested |-> TRUE]

\* A loop that ends at the first exception.
NextIndexOrStop(i, raised) == IF raised THEN i + MaxDocuments ELSE i + 1

\* The loop variable after a message, whether or not an exception left
\* _process_imap_message (imap.py:71-77).
NextIndex(i, raised) == i + 1

\* imap.py:20-50: the configuration check, the connection and the login.
Connect ==
    /\ pc = "mail"
    /\ mail.at \in {"idle", "returned", "raised"}
    /\ \E how \in {"unconfigured", "refused", "login_failed", "ok"} :
          mail' = [mail EXCEPT
                     !.at = IF how = "ok" THEN "logged_in" ELSE "raised",
                     !.result = NewResult, !.id_list = <<>>, !.i = 1,
                     !.logins = IF how = "ok" THEN 1 ELSE 0,
                     !.closes = 0,
                     !.logouts = IF how = "login_failed" THEN 1 ELSE 0,
                     !.attempts = [m \in DOMAIN @ |-> 0],
                     !.last = [m \in DOMAIN @ |-> "none"]]
    /\ pc' = pc
    /\ UNCHANGED <<chunkVars, imageVars, sanitizeVars, emailVars, ttsVars, calls>>

\* The ids the UNSEEN search returns, in the order of the mailbox.
Unseen(msgs) == SelectSeq([m \in 1..Len(msgs) |-> m], LAMBDA m : ~msgs[m].seen)

\* imap.py:52-69, with the finally of lines 79-84 on the two early exits.
SelectAndSearch ==
    /\ pc = "mail"
    /\ mail.at = "logged_in"
    /\ \E select \in {"OK", "NO"}, search \in {"OK", "NO"} :
          LET ids == Unseen(mail.msgs)
          IN mail' =
               IF select # "OK"
               THEN [mail EXCEPT !.at = "raised", !.closes = @ + 1,
                                 !.logouts = @ + 1]
               ELSE IF search # "OK" \/ ids = <<>>
               THEN [mail EXCEPT !.at = "returned", !.closes = @ + 1,
                                 !.logouts = @ + 1]
               ELSE [mail EXCEPT !.at = "loop", !.id_list = ids, !.i = 1,
                                 !.result.fetched = Len(ids)]
    /\ pc' = pc
    /\ UNCHANGED <<chunkVars, imageVars, sanitizeVars, emailVars, ttsVars, calls>>

\* imap.py:71-77: one turn of the loop.
ProcessMessage ==
    /\ pc = "mail"
    /\ mail.at = "loop"
    /\ mail.i <= Len(mail.id_list)
    /\ \E o \in Outcomes :
          LET m == mail.id_list[mail.i]
              r == _process_imap_message(mail.result, mail.msgs[m],
                                         mail.db, o)
          IN mail' = [mail EXCEPT
                        !.result = IF r.raised THEN Fail(r.result, "error")
                                   ELSE r.result,
                        !.msgs[m].seen = r.seen,
                        !.db = r.db,
                        !.attempts[m] = @ + 1,
                        !.last[m] = r.did,
                        !.store_failed[m] = @ \/ r.did = "store_failed",
                        !.ingested[m] = IF r.ingested THEN @ + 1 ELSE @,
                        !.i = NextIndex(mail.i, r.raised)]
    /\ pc' = pc
    /\ UNCHANGED <<chunkVars, imageVars, sanitizeVars, emailVars, ttsVars, calls>>

\* imap.py:79-86: the loop is over.
CloseAndReturn ==
    /\ pc = "mail"
    /\ mail.at = "loop"
    /\ mail.i > Len(mail.id_list)
    /\ mail' = [mail EXCEPT !.at = "returned", !.closes = @ + 1,
                            !.logouts = @ + 1]
    /\ pc' = pc
    /\ UNCHANGED <<chunkVars, imageVars, sanitizeVars, emailVars, ttsVars, calls>>

\* routes_ingest.py:171-181
BatchStart ==
    /\ pc = "mail"
    /\ mail.batch_at = "idle"
    /\ \E is_dir \in BOOLEAN :
          mail' = [mail EXCEPT
                     !.batch_at = IF is_dir /\ mail.files # <<>>
                                  THEN "loop" ELSE "rejected",
                     !.response = IF is_dir /\ mail.files # <<>>
                                  THEN Nothing ELSE <<400>>]
    /\ pc' = pc
    /\ UNCHANGED <<chunkVars, imageVars, sanitizeVars, emailVars, ttsVars, calls>>

\* routes_ingest.py:183-223: one turn of the loop. The call of process_article
\* returns or raises (the process_article of processor.py:72-81 takes no
\* ingestion_method, so with it the call raises TypeError).
BatchFile ==
    /\ pc = "mail"
    /\ mail.batch_at = "loop"
    /\ mail.f <= Len(mail.files)
    /\ \E parse \in {"ok", "raises"}, store \in StoreOutcomes :
          LET key == mail.files[mail.f]
              did == IF parse # "ok" THEN "failed"
                     ELSE IF mail.db[key] # "none" THEN "skipped"
                     ELSE IF store # "ok" THEN "failed"
                     ELSE "processed"
              stored == parse = "ok" /\ mail.db[key] = "none"
          IN mail' = [mail EXCEPT
                        !.results[did] = Append(@, mail.f),
                        !.db[key] = IF stored /\ store = "ok" THEN "complete"
                                    ELSE IF stored /\ store = "fails_after_commit"
                                    THEN "partial" ELSE @,
                        !.file_attempts[mail.f] = @ + 1,
                        !.f = @ + 1]
    /\ pc' = pc
    /\ UNCHANGED <<chunkVars, imageVars, sanitizeVars, emailVars, ttsVars, calls>>

\* routes_ingest.py:225-234
BatchReturn ==
    /\ pc = "mail"
    /\ mail.batch_at = "loop"
    /\ mail.f > Len(mail.files)
    /\ mail' = [mail EXCEPT
                  !.batch_at = "returned",
                  !.response = [total |-> Len(mail.files),
                                processed |-> Len(mail.results.processed),
                                skipped |-> Len(mail.results.skipped),
                                failed |-> Len(mail.results.failed)]]
    /\ pc' = pc
    /\ UNCHANGED <<chunkVars, imageVars, sanitizeVars, emailVars, ttsVars, calls>>

MailNext ==
    \/ Connect \/ SelectAndSearch \/ ProcessMessage \/ CloseAndReturn
    \/ BatchStart \/ BatchFile \/ BatchReturn

SpecMail == MailInit /\ [][MailNext]_vars

\* The run of check_imap_inbox is over: it returned or raised.
RunOver == pc = "mail" /\ mail.at \in {"returned", "raised"}

\* C23: a message a run ingested or recognised as a duplicate is flagged
\* \Seen and a message whose storage failed is not, so that the next UNSEEN
\* search returns it until it is ingested: a message whose storage has failed
\* is flagged \Seen only once an article with its title and sender is stored
\* completely; and no message is ingested twice.
C23_SeenFlagProtocol ==
    RunOver =>
        \A m \in 1..Len(mail.msgs) :
            /\ mail.last[m] \in {"processed", "skipped"} => mail.msgs[m].seen
            /\ mail.last[m] = "store_failed" => ~mail.msgs[m].seen
            /\ (mail.store_failed[m] /\ mail.msgs[m].seen)
                   => mail.db[mail.msgs[m].key] = "complete"
            /\ mail.ingested[m] <= 1

\* C24: when check_imap_inbox returns, fetched = processed + skipped + failed,
\* articles has processed entries and errors has failed entries, whatever the
\* fetch, parse, duplicate, storage and flag-store outcomes were.
C24_SummaryConsistent ==
    (pc = "mail" /\ mail.at = "returned") =>
        /\ mail.result.fetched
              = mail.result.processed + mail.result.skipped + mail.result.failed
        /\ Len(mail.result.articles) = mail.result.processed
        /\ Len(mail.result.errors) = mail.result.failed

IdsBefore(i) == {mail.id_list[j] : j \in {x \in 1..Len(mail.id_list) : x < i}}

Failures == {"fetch_failed", "parse_failed", "error", "store_failed"}

====
